---- MODULE Spec2Model ----
(***************************************************************************)
(* Realtime list mirror and vote write path of the festival companion app. *)
(*                                                                         *)
(* The remote table match_votes (one match) is mirrored by a voting widget *)
(* (MatchVoting or InlineMatchVoting, the same code twice).  The widget    *)
(* issues one bulk read and listens to the change stream of the table.     *)
(* handleVote is the read-modify-write of the local voter's row.  Other    *)
(* clients, among them other widgets and tabs of the same device, change   *)
(* the table concurrently.                                                 *)
(***************************************************************************)
EXTENDS Integers, Sequences, FiniteSets, TLC

\* ------------------------------------------------------------------------
\* Bounds of the model
\* ------------------------------------------------------------------------
\* committed changes of match_votes (length of the change stream)
MaxLog == 3
\* handleVote calls of the local voter that pass the entry guard
MaxCalls == 2
\* repeated deliveries of a change event (SpecDup only)
MaxDup == 1

\* ------------------------------------------------------------------------
\* Fixed sets
\* ------------------------------------------------------------------------
\* the two components that mirror match_votes
Components == {"MatchVoting", "InlineMatchVoting"}
\* props teamA, teamB
teamA == "A"
teamB == "B"
Teams == {teamA, teamB}
\* prop matchId
matchId == "m1"
\* value of localStorage 'spandan_user_id' on this device
userIdentifier == "u1"
\* voters on other devices
OtherVoters == {"u2"}
\* useState<string | null>(null)
NULL == "null"

VARIABLES
    component,  \* which of the two components this instance is
    store,      \* remote table match_votes: set of rows of matchId
    nextId,     \* next value of gen_random_uuid()
    log,        \* change stream of match_votes in commit order
    votes,      \* useState<VoteData[]>
    userVote,   \* useState<string | null>
    isLoading,  \* useState(true), MatchVoting only
    isVoting,   \* useState(false)
    fetch,      \* the bulk read of fetchVotes
    cursor,     \* index in log of the next event of the channel
    net,        \* writes of handleVote in flight and their results
    voteLog,    \* history: teams of the handleVote calls, in call order
    clean,      \* history: no injected fault, own row not touched by others
    dups,       \* history: number of repeated deliveries
    \* --- effect lifecycle of a mirror component (SpecLife)
    mounted,    \* the component instance is mounted
    key,        \* current parent key prop (matchId, sportId, teamSports.length)
    ident,      \* useState('') userIdentifier of the instance
    channels,   \* live realtime subscriptions of the supabase client
    runs,       \* number of runs of the fetch/subscribe effect
    reads,      \* bulk reads in flight, each with the key of its closure
    messages,   \* LiveChat useState<ChatMessage[]>
    chatLoading, \* LiveChat isLoading
    \* --- profanity filter (SpecFilter, SpecCensor)
    lastIndex,  \* lastIndex[j]: RegExp.lastIndex of patterns[j].pattern
    call,       \* the last call of the filter: its input and what it returned
    \* --- LiveChat input row (SpecChat)
    newMessage, \* useState('') of the message input
    username,   \* useState(localStorage 'spandan_username' or '')
    replyingTo, \* useState<ChatMessage | null> (second variant), a row id
    storedName, \* localStorage 'spandan_username'
    inserts,    \* rows handed to supabase.from('chat_messages').insert
    \* --- reactions, leaderboard page, device storage
    reactions,  \* LiveChat useState<ChatReaction[]>
    rstore,     \* remote table chat_reactions
    toggles,    \* history: the toggleReaction calls and the store at the call
    leaderboards, \* FanLeaderboard useState<SportLeaderboard[]>
    sportsLoading, \* FanLeaderboard: isLoading of useSports()
    matches,    \* remote table matches (id, sport_id)
    storage,    \* localStorage 'spandan_user_id' ('' when absent)
    instances   \* mounted components that share the storage, with their
                \* userIdentifier state

voteVars == <<store, nextId, log, isVoting, fetch, cursor, net, voteLog,
              clean, dups>>

lifeVars == <<mounted, key, ident, channels, runs, reads, messages,
              chatLoading>>

textVars == <<lastIndex, call, newMessage, username, replyingTo, storedName, inserts>>

pageVars == <<reactions, rstore, toggles, leaderboards, sportsLoading,
              matches, storage, instances>>

vars == <<component, votes, userVote, isLoading, voteVars, lifeVars, textVars,
          pageVars>>

\* ------------------------------------------------------------------------
\* Rows and payloads
\* ------------------------------------------------------------------------
VoteData(i, t, u) ==
    [id |-> i, match_id |-> matchId, team_voted |-> t, user_identifier |-> u]

NoRow == [id |-> 0, match_id |-> "", team_voted |-> "", user_identifier |-> ""]

Payload(type, new, old) == [eventType |-> type, new |-> new, old |-> old]

\* ------------------------------------------------------------------------
\* Array helpers (Array.prototype.find / filter / map)
\* ------------------------------------------------------------------------
Range(s) == {s[i] : i \in 1..Len(s)}

Ids(s) == {s[i].id : i \in 1..Len(s)}

CountId(s, i) == Cardinality({k \in 1..Len(s) : s[k].id = i})

RECURSIVE FilterOutId(_, _)
FilterOutId(s, i) ==
    IF s = <<>> THEN <<>>
    ELSE IF Head(s).id # i THEN <<Head(s)>> \o FilterOutId(Tail(s), i)
         ELSE FilterOutId(Tail(s), i)

MapReplace(s, new) ==
    [k \in 1..Len(s) |-> IF s[k].id = new.id THEN new ELSE s[k]]

\* votes.find(v => v.user_identifier === userIdentifier): first match or NoRow
FindVote(s, u) ==
    LET hits == {k \in 1..Len(s) : s[k].user_identifier = u}
    IN IF hits = {} THEN NoRow
       ELSE s[CHOOSE k \in hits : \A j \in hits : k <= j]

\* rows of a select on match_votes, in primary-key order
RECURSIVE ToSeqById(_)
ToSeqById(S) ==
    IF S = {} THEN <<>>
    ELSE LET r == CHOOSE x \in S : \A y \in S : x.id <= y.id
         IN <<r>> \o ToSeqById(S \ {r})

\* ------------------------------------------------------------------------
\* postgres_changes handler of the votes channel
\* ------------------------------------------------------------------------
applyVoteEvent(prev, payload) ==
    IF payload.eventType = "INSERT" THEN Append(prev, payload.new)
    ELSE IF payload.eventType = "UPDATE" THEN MapReplace(prev, payload.new)
    ELSE IF payload.eventType = "DELETE" THEN FilterOutId(prev, payload.old.id)
    ELSE prev

\* ------------------------------------------------------------------------
\* handleVote: the write chosen from the mirror
\* ------------------------------------------------------------------------
NoWrite ==
    [kind |-> "none", id |-> 0, match_id |-> "", team_voted |-> "",
     user_identifier |-> ""]

\* .update({ team_voted: team }).eq('id', existingVote.id)
UpdateWrite(i, team) ==
    [kind |-> "update", id |-> i, match_id |-> "", team_voted |-> team,
     user_identifier |-> ""]

\* .insert({ match_id: matchId, team_voted: team, user_identifier })
InsertWrite(team) ==
    [kind |-> "insert", id |-> 0, match_id |-> matchId, team_voted |-> team,
     user_identifier |-> userIdentifier]

\* variant: the comparison with the entry's team is missing
chooseWrite_NoSameTeamCheck(vs, team) ==
    LET existingVote == FindVote(vs, userIdentifier)
    IN IF existingVote # NoRow
       THEN UpdateWrite(existingVote.id, team)
       ELSE InsertWrite(team)

chooseWrite(vs, team) ==
    LET existingVote == FindVote(vs, userIdentifier)
    IN IF existingVote # NoRow
       THEN IF existingVote.team_voted = team
            THEN NoWrite
            ELSE UpdateWrite(existingVote.id, team)
       ELSE InsertWrite(team)

\* a write in flight (outcome "pending") or its result
Msg(wr, outcome) == [write |-> wr, outcome |-> outcome]

\* ------------------------------------------------------------------------
\* Profanity filter (utils/censorWords.ts).  A text is a sequence of
\* one-character strings.
\* ------------------------------------------------------------------------
BANNED_WORDS ==
    << <<"f", "u", "c", "k">>,
       <<"s", "h", "i", "t">>,
       <<"a", "s", "s">>,
       <<"b", "i", "t", "c", "h">>,
       <<"d", "a", "m", "n">>,
       <<"h", "e", "l", "l">>,
       <<"c", "r", "a", "p">>,
       <<"d", "i", "c", "k">>,
       <<"c", "o", "c", "k">>,
       <<"p", "u", "s", "s", "y">>,
       <<"b", "a", "s", "t", "a", "r", "d">>,
       <<"s", "l", "u", "t">>,
       <<"w", "h", "o", "r", "e">>,
       <<"f", "a", "g">>,
       <<"r", "e", "t", "a", "r", "d">>,
       <<"n", "i", "g", "g", "e", "r">>,
       <<"c", "u", "n", "t">>,
       <<"p", "i", "s", "s">>,
       <<"b", "o", "l", "l", "o", "c", "k", "s">>,
       <<"w", "a", "n", "k", "e", "r">>,
       <<"t", "w", "a", "t">>,
       <<"a", "r", "s", "e">>,
       <<"b", "l", "o", "o", "d", "y">>,
       <<"b", "u", "g", "g", "e", "r">>,
       <<"c", "h", "u", "t", "i", "y", "a">>,
       <<"m", "a", "d", "a", "r", "c", "h", "o", "d">>,
       <<"b", "e", "h", "e", "n", "c", "h", "o", "d">>,
       <<"b", "h", "e", "n", "c", "h", "o", "d">>,
       <<"g", "a", "a", "n", "d">>,
       <<"l", "u", "n", "d">>,
       <<"r", "a", "n", "d", "i">>,
       <<"h", "a", "r", "a", "m", "i">>,
       <<"s", "a", "a", "l", "a">>,
       <<"k", "a", "m", "i", "n", "a">>,
       <<"k", "u", "t", "t", "a">>,
       <<"k", "u", "t", "t", "i">>,
       <<"c", "h", "u", "t">> >>

LowerCase == <<"a", "b", "c", "d", "e", "f", "g", "h", "i", "j", "k", "l", "m",
               "n", "o", "p", "q", "r", "s", "t", "u", "v", "w", "x", "y", "z">>

UpperCase == <<"A", "B", "C", "D", "E", "F", "G", "H", "I", "J", "K", "L", "M",
               "N", "O", "P", "Q", "R", "S", "T", "U", "V", "W", "X", "Y", "Z">>

Digits == {"0", "1", "2", "3", "4", "5", "6", "7", "8", "9"}

LowerSet == {LowerCase[k] : k \in 1..26}

UpperSet == {UpperCase[k] : k \in 1..26}

\* case folding of the 'i' flag
ToLower(ch) ==
    IF ch \in UpperSet
    THEN LowerCase[CHOOSE k \in 1..26 : UpperCase[k] = ch]
    ELSE ch

ToUpper(ch) ==
    IF ch \in LowerSet
    THEN UpperCase[CHOOSE k \in 1..26 : LowerCase[k] = ch]
    ELSE ch

\* \w
WordChars == LowerSet \cup UpperSet \cup Digits \cup {"_"}

IsWordChar(ch) == ch \in WordChars

\* \s
WhiteSpace == {" ", "\t", "\n"}

\* [\s._-]
Separators == WhiteSpace \cup {".", "_", "-"}

IsSeparator(ch) == ch \in Separators

leetMap(ch) ==
    CASE ch = "a" -> {"a", "@", "4"}
      [] ch = "e" -> {"e", "3"}
      [] ch = "i" -> {"i", "1", "!"}
      [] ch = "o" -> {"o", "0"}
      [] ch = "s" -> {"s", "$", "5"}
      [] ch = "t" -> {"t", "7"}
      [] ch = "l" -> {"l", "1"}
      [] OTHER -> {ch}

\* the pattern of a word: one character class per letter; between two
\* classes stands [\s._-]*, around the whole stands \b ... \b, flags 'gi'
RECURSIVE ClassesFrom(_, _)
ClassesFrom(word, k) ==
    IF k > Len(word) THEN <<>>
    ELSE <<leetMap(ToLower(word[k]))>> \o ClassesFrom(word, k + 1)

createPattern(word) == ClassesFrom(word, 1)

PatternOf(j) == createPattern(BANNED_WORDS[j])

\* BANNED_WORDS.map(word => ({ word, pattern: createPattern(word) }))
RECURSIVE MapPatterns(_)
MapPatterns(j) ==
    IF j > Len(BANNED_WORDS) THEN <<>>
    ELSE <<PatternOf(j)>> \o MapPatterns(j + 1)

patterns == MapPatterns(1)

\* \b between positions i - 1 and i of t
IsWordAt(t, i) == i >= 1 /\ i <= Len(t) /\ IsWordChar(t[i])

Boundary(t, i) == IsWordAt(t, i - 1) # IsWordAt(t, i)

\* class k of pat and the rest, from position i of t (after the separators
\* that may precede class k > 1): position of the last matched character,
\* 0 if there is no match
RECURSIVE MatchFrom(_, _, _, _)
MatchFrom(pat, k, t, i) ==
    IF i > Len(t) THEN 0
    ELSE IF ToLower(t[i]) \in pat[k]
         THEN IF k = Len(pat) THEN i ELSE MatchFrom(pat, k + 1, t, i + 1)
         ELSE IF k > 1 /\ IsSeparator(t[i]) THEN MatchFrom(pat, k, t, i + 1)
              ELSE 0

\* \b ... \b around a match that starts at p and ends at e (0: no match)
Anchored(t, p, e) ==
    IF e > 0 /\ Boundary(t, p) /\ Boundary(t, e + 1) THEN e ELSE 0

\* the match of pat that starts at position p: its last position, or 0
MatchEnd(pat, t, p) == Anchored(t, p, MatchFrom(pat, 1, t, p))

\* the least number of a non-empty set
Least(S) == CHOOSE x \in S : \A y \in S : x <= y

\* the leftmost of the spans <<start, end>> that are matches (end > 0),
\* <<0, 0>> if there is none
Leftmost(spans) ==
    IF spans = {} THEN <<0, 0>>
    ELSE CHOOSE m \in spans : \A n \in spans : m[1] <= n[1]

\* variant: the pattern is compiled without the \b anchors
Exec_NoBoundary(pat, t, p) ==
    Leftmost({m \in {<<q, MatchFrom(pat, 1, t, q)>> : q \in p..Len(t)} :
                 m[2] > 0})

\* RegExp exec from position p on: <<start, end>> of the leftmost match,
\* <<0, 0>> if there is none
Exec(pat, t, p) ==
    Leftmost({m \in {<<q, MatchEnd(pat, t, q)>> : q \in p..Len(t)} :
                 m[2] > 0})

\* all non-overlapping matches of a 'g' pattern, left to right: m is the
\* leftmost match from the current position on
RECURSIVE MatchesFrom(_, _, _)
MatchesFrom(pat, t, m) ==
    IF m[1] = 0 THEN {}
    ELSE {m} \cup MatchesFrom(pat, t, Exec(pat, t, m[2] + 1))

AllMatches(pat, t) == MatchesFrom(pat, t, Exec(pat, t, 1))

\* match[0] + '*'.repeat(match.length - 1) written over every span
\* <<first, last>> of ms: the characters of t from position i on
RECURSIVE Redact(_, _, _)
Redact(t, ms, i) ==
    IF i > Len(t) THEN <<>>
    ELSE <<IF \E m \in ms : m[1] < i /\ i <= m[2] THEN "*" ELSE t[i]>>
         \o Redact(t, ms, i + 1)

\* variant: the whole match is replaced by asterisks
replacePattern_AllStars(pat, t) ==
    Redact(t, {<<m[1] - 1, m[2]>> : m \in AllMatches(pat, t)}, 1)

\* censored.replace(pattern, match => match[0] + '*'.repeat(match.length - 1))
replacePattern(pat, t) == Redact(t, AllMatches(pat, t), 1)

\* patterns.forEach over the rules lo..hi in list order: the values that
\* censored takes, one after each rule, starting from t
RECURSIVE Passes(_, _, _), PassesAfter(_, _, _)
Passes(t, lo, hi) ==
    IF lo = hi THEN <<replacePattern(patterns[lo], t)>>
    ELSE PassesAfter(Passes(t, lo, (lo + hi) \div 2),
                     (lo + hi) \div 2 + 1, hi)

\* the rules lo..hi go on from the last value of censored
PassesAfter(done, lo, hi) == done \o Passes(done[Len(done)], lo, hi)

\* the rules that match t
MatchingRules(t) ==
    {j \in 1..Len(patterns) : Exec(patterns[j], t, 1)[1] # 0}

\* variant: the loop over the rules stops after the first rule that matches
censorMessage_FirstRuleOnly(message) ==
    IF MatchingRules(message) = {} THEN message
    ELSE replacePattern(patterns[Least(MatchingRules(message))], message)

censorMessage(message) ==
    Passes(message, 1, Len(patterns))[Len(patterns)]

\* what test returns and where it leaves lastIndex, m being the match found
\* (<<0, 0>>: none): a hit leaves lastIndex behind the match, a miss resets
\* it to 0
TestResult(m) == [hit |-> m[1] # 0, lastIndex |-> m[2]]

\* pattern.test(message) of a 'g' pattern whose lastIndex is li: the search
\* starts at lastIndex
TestPattern(pat, t, li) ==
    TestResult(IF li > Len(t) THEN <<0, 0>> ELSE Exec(pat, t, li + 1))

\* pattern.test(message) of every rule j, as pairs <<j, what test returns>>
TestAll(message, li) ==
    {<<j, TestPattern(patterns[j], message, li[j])>> :
        j \in 1..Len(patterns)}

TestOf(tests, j) == (CHOOSE x \in tests : x[1] = j)[2]

\* some tests the rules in list order and stops at the first hit: the last
\* rule it tests
LastTested(tests) ==
    Least({x[1] : x \in {y \in tests : y[2].hit \/ y[1] = Len(patterns)}})

\* what some returns when last is the last rule it tests: the rules behind
\* it are not tested and keep their lastIndex
SomeUpTo(tests, li, last) ==
    [result |-> TestOf(tests, last).hit,
     lastIndex |-> [j \in 1..Len(patterns) |->
                       IF j <= last THEN TestOf(tests, j).lastIndex
                       ELSE li[j]]]

\* patterns.some(({ pattern }) => pattern.test(message))
Some(tests, li) == SomeUpTo(tests, li, LastTested(tests))

\* variant: the result of some is negated
containsProfanity_Negated(message, li) ==
    [Some(TestAll(message, li), li) EXCEPT !.result = ~@]

containsProfanity(message, li) == Some(TestAll(message, li), li)

\* state of the module after load: every pattern has lastIndex 0
FreshIndex == [j \in 1..Len(BANNED_WORDS) |-> 0]

NoCall ==
    [op |-> "none", input |-> <<>>, output |-> <<>>, detected |-> FALSE,
     stale |-> FALSE, again |-> <<>>]

\* no reaction, no leaderboard page and no identifier effect is involved
PageFixed ==
    /\ reactions = <<>>
    /\ rstore = {}
    /\ toggles = <<>>
    /\ leaderboards = <<>>
    /\ sportsLoading = FALSE
    /\ matches = {}
    /\ storage = userIdentifier
    /\ instances = <<>>

\* Spec and SpecLife do not call the filter and show no chat input row
TextFixed ==
    /\ PageFixed
    /\ lastIndex = FreshIndex
    /\ call = NoCall
    /\ newMessage = <<>>
    /\ username = <<>>
    /\ replyingTo = NULL
    /\ storedName = <<>>
    /\ inserts = <<>>

\* ------------------------------------------------------------------------
\* Initial state: the component is mounted, the identifier effect is done,
\* the fetch effect has issued the bulk read and subscribed the channel.
\* The table may already hold a vote cast before the mount.
\* ------------------------------------------------------------------------
InitialStores == {{}, {VoteData(1, teamA, "u2")}}

\* the realtime channel opened by one run of an effect
Channel(name, k, run) == [name |-> name, key |-> k, run |-> run]

\* Spec keeps the lifecycle fixed: one mounted instance on matchId whose
\* effect has run with the identifier set (bulk read issued, channel open)
LifeFixed ==
    /\ mounted = TRUE
    /\ key = matchId
    /\ ident = userIdentifier
    /\ channels = {Channel("votes", matchId, 2)}
    /\ runs = 2
    /\ reads = {}
    /\ messages = <<>>
    /\ chatLoading = TRUE

Init ==
    /\ component \in Components
    /\ store \in InitialStores
    /\ nextId = Cardinality(store) + 1
    /\ log = <<>>
    /\ votes = <<>>
    /\ userVote = NULL
    /\ isLoading = (component = "MatchVoting")
    /\ isVoting = FALSE
    /\ fetch = [st |-> "sent", ok |-> FALSE, data |-> <<>>]
    /\ cursor = 1
    /\ net = {}
    /\ voteLog = <<>>
    /\ clean = TRUE
    /\ dups = 0
    /\ LifeFixed
    /\ TextFixed

\* ------------------------------------------------------------------------
\* Remote store: changes made by other clients (other devices, and other
\* widgets or tabs of this device, which write with userIdentifier)
\* ------------------------------------------------------------------------
RemoteInsert(u, t) ==
    /\ Len(log) < MaxLog
    /\ \A r \in store : r.user_identifier # u
    /\ LET r == VoteData(nextId, t, u)
       IN /\ store' = store \cup {r}
          /\ log' = Append(log, Payload("INSERT", r, NoRow))
    /\ nextId' = nextId + 1
    /\ clean' = (clean /\ u # userIdentifier)
    /\ UNCHANGED <<component, votes, userVote, isLoading, isVoting, fetch,
                   cursor, net, voteLog, dups>>
    /\ UNCHANGED <<lifeVars, textVars, pageVars>>

RemoteUpdate(r, t) ==
    /\ Len(log) < MaxLog
    /\ r \in store
    /\ LET n == [r EXCEPT !.team_voted = t]
       IN /\ store' = (store \ {r}) \cup {n}
          /\ log' = Append(log, Payload("UPDATE", n, r))
    /\ clean' = (clean /\ r.user_identifier # userIdentifier)
    /\ UNCHANGED <<component, nextId, votes, userVote, isLoading, isVoting,
                   fetch, cursor, net, voteLog, dups>>
    /\ UNCHANGED <<lifeVars, textVars, pageVars>>

RemoteDelete(r) ==
    /\ Len(log) < MaxLog
    /\ r \in store
    /\ store' = store \ {r}
    /\ log' = Append(log, Payload("DELETE", NoRow, r))
    /\ clean' = (clean /\ r.user_identifier # userIdentifier)
    /\ UNCHANGED <<component, nextId, votes, userVote, isLoading, isVoting,
                   fetch, cursor, net, voteLog, dups>>
    /\ UNCHANGED <<lifeVars, textVars, pageVars>>

\* ------------------------------------------------------------------------
\* fetchVotes
\* ------------------------------------------------------------------------
\* the store answers the select with its rows at this moment
FetchServe ==
    /\ fetch.st = "sent"
    /\ fetch' = [st |-> "replied", ok |-> TRUE, data |-> ToSeqById(store)]
    /\ UNCHANGED <<component, store, nextId, log, votes, userVote, isLoading,
                   isVoting, cursor, net, voteLog, clean, dups>>
    /\ UNCHANGED <<lifeVars, textVars, pageVars>>

\* the select fails: data is null
FetchFail ==
    /\ fetch.st = "sent"
    /\ fetch' = [st |-> "replied", ok |-> FALSE, data |-> <<>>]
    /\ UNCHANGED <<component, store, nextId, log, votes, userVote, isLoading,
                   isVoting, cursor, net, voteLog, clean, dups>>
    /\ UNCHANGED <<lifeVars, textVars, pageVars>>

\* variant: setVotes(data || [])
fetchedVotes_ClearOnError(ok, data, prev) == IF ok THEN data ELSE <<>>

\* if (data) setVotes(data): the list after the bulk read returned
fetchedVotes(ok, data, prev) == IF ok THEN data ELSE prev

\* continuation of fetchVotes after the await
FetchApply ==
    /\ fetch.st = "replied"
    /\ LET data == fetch.data
           existingVote == FindVote(data, userIdentifier)
       IN /\ votes' = fetchedVotes(fetch.ok, data, votes)
          /\ userVote' = IF fetch.ok /\ existingVote # NoRow
                         THEN existingVote.team_voted ELSE userVote
    /\ isLoading' = FALSE
    /\ fetch' = [fetch EXCEPT !.st = "done", !.data = <<>>]
    /\ UNCHANGED <<component, store, nextId, log, isVoting, cursor, net,
                   voteLog, clean, dups>>
    /\ UNCHANGED <<lifeVars, textVars, pageVars>>

\* ------------------------------------------------------------------------
\* Channel: the next change is delivered to the handler
\* ------------------------------------------------------------------------
Deliver ==
    /\ cursor <= Len(log)
    /\ votes' = applyVoteEvent(votes, log[cursor])
    /\ cursor' = cursor + 1
    /\ UNCHANGED <<component, store, nextId, log, userVote, isLoading,
                   isVoting, fetch, net, voteLog, clean, dups>>
    /\ UNCHANGED <<lifeVars, textVars, pageVars>>

\* the transport delivers the last change a second time
Redeliver ==
    /\ dups < MaxDup
    /\ cursor > 1
    /\ votes' = applyVoteEvent(votes, log[cursor - 1])
    /\ dups' = dups + 1
    /\ UNCHANGED <<component, store, nextId, log, userVote, isLoading,
                   isVoting, fetch, cursor, net, voteLog, clean>>
    /\ UNCHANGED <<lifeVars, textVars, pageVars>>

\* ------------------------------------------------------------------------
\* handleVote
\* ------------------------------------------------------------------------
\* variant: the guard looks at the identifier only
canVote_IgnoreVoting(id, voting) == id # ""

\* if (!userIdentifier || isVoting) return;
canVote(id, voting) == ~(id = "" \/ voting)

\* from the entry guard to the await (or to the early return).  MatchVoting
\* renders no vote buttons while isLoading; InlineMatchVoting has no loading
\* flag, its isLoading is FALSE throughout.
HandleVote(team) ==
    /\ Len(voteLog) < MaxCalls
    /\ ~isLoading
    /\ canVote(userIdentifier, isVoting)
    /\ LET wr == chooseWrite(votes, team)
       IN IF wr.kind = "none"
          THEN UNCHANGED <<isVoting, net>>
          ELSE /\ isVoting' = TRUE
               /\ net' = net \cup {Msg(wr, "pending")}
    /\ voteLog' = Append(voteLog, team)
    /\ UNCHANGED <<component, store, nextId, log, votes, userVote, isLoading,
                   fetch, cursor, clean, dups>>
    /\ UNCHANGED <<lifeVars, textVars, pageVars>>

\* the store executes the write (the model stops when the stream is full)
ServerWrite(m) ==
    /\ m \in net
    /\ m.outcome = "pending"
    /\ Len(log) < MaxLog
    /\ IF m.write.kind = "insert"
       THEN IF \E r \in store : r.user_identifier = m.write.user_identifier
            THEN \* UNIQUE(match_id, user_identifier) rejects the row
                 /\ net' = (net \ {m}) \cup {[m EXCEPT !.outcome = "error"]}
                 /\ UNCHANGED <<store, log, nextId>>
            ELSE LET r == VoteData(nextId, m.write.team_voted,
                                  m.write.user_identifier)
                 IN /\ store' = store \cup {r}
                    /\ log' = Append(log, Payload("INSERT", r, NoRow))
                    /\ nextId' = nextId + 1
                    /\ net' = (net \ {m}) \cup {[m EXCEPT !.outcome = "ok"]}
       ELSE /\ IF \E r \in store : r.id = m.write.id
               THEN LET r == CHOOSE x \in store : x.id = m.write.id
                        n == [r EXCEPT !.team_voted = m.write.team_voted]
                    IN /\ store' = (store \ {r}) \cup {n}
                       /\ log' = Append(log, Payload("UPDATE", n, r))
               ELSE UNCHANGED <<store, log>>
            /\ net' = (net \ {m}) \cup {[m EXCEPT !.outcome = "ok"]}
            /\ UNCHANGED nextId
    /\ UNCHANGED <<component, votes, userVote, isLoading, isVoting, fetch,
                   cursor, voteLog, clean, dups>>
    /\ UNCHANGED <<lifeVars, textVars, pageVars>>

\* the write does not reach the store: error result, or rejected promise
WriteFault(m, outcome) ==
    /\ m \in net
    /\ m.outcome = "pending"
    /\ net' = (net \ {m}) \cup {[m EXCEPT !.outcome = outcome]}
    /\ clean' = FALSE
    /\ UNCHANGED <<component, store, nextId, log, votes, userVote, isLoading,
                   isVoting, fetch, cursor, voteLog, dups>>
    /\ UNCHANGED <<lifeVars, textVars, pageVars>>

\* continuation of handleVote after the await
HandleVoteResume(m) ==
    /\ m \in net
    /\ m.outcome # "pending"
    /\ userVote' = IF m.outcome = "throw" THEN userVote
                   ELSE m.write.team_voted
    /\ isVoting' = FALSE
    /\ net' = net \ {m}
    /\ UNCHANGED <<component, store, nextId, log, votes, isLoading, fetch,
                   cursor, voteLog, clean, dups>>
    /\ UNCHANGED <<lifeVars, textVars, pageVars>>

\* ------------------------------------------------------------------------
Next ==
    \/ \E u \in OtherVoters \cup {userIdentifier}, t \in Teams : RemoteInsert(u, t)
    \/ \E r \in store, t \in Teams : RemoteUpdate(r, t)
    \/ \E r \in store : RemoteDelete(r)
    \/ FetchServe
    \/ FetchFail
    \/ FetchApply
    \/ Deliver
    \/ \E t \in Teams : HandleVote(t)
    \/ \E m \in net : ServerWrite(m)
    \/ \E m \in net, o \in {"error", "throw"} : WriteFault(m, o)
    \/ \E m \in net : HandleVoteResume(m)

Spec == Init /\ [][Next]_vars

\* the same system on a transport that may repeat a delivery
NextDup == Next \/ Redeliver

SpecDup == Init /\ [][NextDup]_vars

\* ========================================================================
\* Effect lifecycle of the mirror components: mount, identifier effect,
\* change of the parent key, unmount, and the bulk reads in flight
\* ========================================================================
\* effect runs of one instance
MaxRuns == 4

LifeComponents == Components \cup {"LiveChat", "FanLeaderboard"}

\* values of the parent key prop
LifeKeys == {matchId, "m2"}

\* channels one run of the subscribe effect opens
ChannelNames(c) ==
    IF c = "MatchVoting" THEN {"votes"}
    ELSE IF c = "InlineMatchVoting" THEN {"inline-votes"}
    ELSE IF c = "LiveChat" THEN {"chat", "reactions"}
    ELSE {"leaderboard-votes"}

openChannels(c, k, run) == {Channel(n, k, run) : n \in ChannelNames(c)}

\* variant: the effect returns no cleanup
releaseChannels_Leak(live, run) == live

\* effect cleanup: supabase.removeChannel of every channel the run opened
releaseChannels(live, run) == {ch \in live : ch.run # run}

\* the bulk read an effect run issues; the closure keeps key and identifier
Read(k, id, run) ==
    [key |-> k, ident |-> id, run |-> run, st |-> "sent", ok |-> FALSE,
     data |-> <<>>]

issueReads(c, k, id, run) ==
    IF c \in Components
    THEN IF id # "" THEN {Read(k, id, run)} ELSE {}
    ELSE IF c = "LiveChat" THEN {Read(k, id, run)} ELSE {}

ChatMessage(i, k, text, name) ==
    [id |-> i, sport_id |-> k, message |-> text, username |-> name]

\* rows the store returns for a parent key
LifeVotes(k) ==
    IF k = matchId
    THEN <<[id |-> 1, match_id |-> k, team_voted |-> teamA,
            user_identifier |-> userIdentifier]>>
    ELSE <<[id |-> 2, match_id |-> k, team_voted |-> teamB,
            user_identifier |-> "u2"]>>

LifeMessages(k) ==
    IF k = matchId THEN <<ChatMessage(1, k, <<"h", "i">>, <<"x">>)>>
    ELSE <<ChatMessage(2, k, <<"y", "o">>, <<"z">>)>>

LifeInit ==
    /\ component \in LifeComponents
    /\ mounted = TRUE
    /\ key = matchId
    /\ ident = ""
    /\ runs = 1
    /\ channels = openChannels(component, key, 1)
    /\ reads = issueReads(component, key, "", 1)
    /\ votes = <<>>
    /\ userVote = NULL
    /\ isLoading = (component = "MatchVoting")
    /\ messages = <<>>
    /\ chatLoading = TRUE
    /\ store = {}
    /\ nextId = 1
    /\ log = <<>>
    /\ isVoting = FALSE
    /\ fetch = [st |-> "done", ok |-> FALSE, data |-> <<>>]
    /\ cursor = 1
    /\ net = {}
    /\ voteLog = <<>>
    /\ clean = TRUE
    /\ dups = 0
    /\ TextFixed

\* cleanup of the last run, then the effect body with the new dependencies
RerunEffect(k, id) ==
    /\ runs' = runs + 1
    /\ channels' = releaseChannels(channels, runs)
                       \cup openChannels(component, k, runs + 1)
    /\ reads' = reads \cup issueReads(component, k, id, runs + 1)

\* the identifier effect sets userIdentifier; it is a dependency of the
\* fetch effect of the voting widgets only
IdentifierReady ==
    /\ mounted
    /\ ident = ""
    /\ ident' = userIdentifier
    /\ IF component \in Components
       THEN RerunEffect(key, userIdentifier)
       ELSE UNCHANGED <<runs, channels, reads>>
    /\ UNCHANGED <<component, mounted, key, votes, userVote, isLoading,
                   messages, chatLoading, voteVars, textVars, pageVars>>

\* the parent passes another key
ChangeKey(k) ==
    /\ mounted
    /\ ident # ""
    /\ k # key
    /\ runs < MaxRuns
    /\ key' = k
    /\ RerunEffect(k, ident)
    /\ UNCHANGED <<component, mounted, ident, votes, userVote, isLoading,
                   messages, chatLoading, voteVars, textVars, pageVars>>

Unmount ==
    /\ mounted
    /\ mounted' = FALSE
    /\ channels' = releaseChannels(channels, runs)
    /\ UNCHANGED <<component, key, ident, runs, reads, votes, userVote,
                   isLoading, messages, chatLoading, voteVars, textVars, pageVars>>

\* the store answers a bulk read
ReadServe(r) ==
    /\ r \in reads
    /\ r.st = "sent"
    /\ reads' = (reads \ {r}) \cup
           {[r EXCEPT !.st = "replied", !.ok = TRUE,
                      !.data = IF component = "LiveChat"
                               THEN LifeMessages(r.key)
                               ELSE LifeVotes(r.key)]}
    /\ UNCHANGED <<component, mounted, key, ident, channels, runs, votes,
                   userVote, isLoading, messages, chatLoading, voteVars, textVars, pageVars>>

ReadFail(r) ==
    /\ r \in reads
    /\ r.st = "sent"
    /\ reads' = (reads \ {r}) \cup {[r EXCEPT !.st = "replied"]}
    /\ UNCHANGED <<component, mounted, key, ident, channels, runs, votes,
                   userVote, isLoading, messages, chatLoading, voteVars, textVars, pageVars>>

\* continuation of fetchVotes / fetchMessages after the await; React drops
\* state updates of an instance that is no longer mounted
ReadApply(r) ==
    /\ r \in reads
    /\ r.st = "replied"
    /\ reads' = reads \ {r}
    /\ IF ~mounted
       THEN UNCHANGED <<votes, userVote, isLoading, messages, chatLoading>>
       ELSE IF component = "LiveChat"
       THEN /\ messages' = IF r.ok THEN r.data ELSE messages
            /\ chatLoading' = FALSE
            /\ UNCHANGED <<votes, userVote, isLoading>>
       ELSE LET existingVote == FindVote(r.data, r.ident)
            IN /\ votes' = IF r.ok THEN r.data ELSE votes
               /\ userVote' = IF r.ok /\ existingVote # NoRow
                              THEN existingVote.team_voted ELSE userVote
               /\ isLoading' = FALSE
               /\ UNCHANGED <<messages, chatLoading>>
    /\ UNCHANGED <<component, mounted, key, ident, channels, runs, voteVars, textVars, pageVars>>

LifeNext ==
    \/ IdentifierReady
    \/ \E k \in LifeKeys : ChangeKey(k)
    \/ Unmount
    \/ \E r \in reads : ReadServe(r)
    \/ \E r \in reads : ReadFail(r)
    \/ \E r \in reads : ReadApply(r)

SpecLife == LifeInit /\ [][LifeNext]_vars

\* ------------------------------------------------------------------------
\* The filter called as a library (SpecFilter): any caller, any text, in any
\* order.  The patterns are module-level objects, so their lastIndex
\* values live as long as the page.
\* ------------------------------------------------------------------------
MaxText == 3

FilterAlphabet == {"a", "S", " "}

FilterTexts == UNION {[1..n -> FilterAlphabet] : n \in 0..MaxText}

\* no widget is involved in the filter's own specifications
WidgetFixed ==
    /\ votes = <<>>
    /\ userVote = NULL
    /\ isLoading = FALSE
    /\ store = {}
    /\ nextId = 1
    /\ log = <<>>
    /\ isVoting = FALSE
    /\ fetch = [st |-> "done", ok |-> FALSE, data |-> <<>>]
    /\ cursor = 1
    /\ net = {}
    /\ voteLog = <<>>
    /\ clean = TRUE
    /\ dups = 0
    /\ LifeFixed
    /\ PageFixed

ChatFixed ==
    /\ newMessage = <<>>
    /\ username = <<>>
    /\ replyingTo = NULL
    /\ storedName = <<>>
    /\ inserts = <<>>

FilterInit ==
    /\ component = "LiveChat"
    /\ WidgetFixed
    /\ ChatFixed
    /\ lastIndex = FreshIndex
    /\ call = NoCall

\* containsProfanity(t) returns r
ContainsProfanityReturns(t, r) ==
    /\ lastIndex' = r.lastIndex
    /\ call' = [op |-> "containsProfanity", input |-> t, output |-> <<>>,
                detected |-> r.result, stale |-> lastIndex # FreshIndex,
                again |-> <<>>]
    /\ UNCHANGED <<component, votes, userVote, isLoading, voteVars,
                   lifeVars, pageVars, newMessage, username, replyingTo, storedName,
                   inserts>>

\* containsProfanity(t)
CallContainsProfanity(t) ==
    ContainsProfanityReturns(t, containsProfanity(t, lastIndex))

\* censorMessage(t): String.prototype.replace with a 'g' pattern starts at 0
\* and leaves lastIndex = 0
CallCensorMessage(t) ==
    /\ lastIndex' = FreshIndex
    /\ call' = [op |-> "censorMessage", input |-> t,
                output |-> censorMessage(t), detected |-> FALSE,
                stale |-> lastIndex # FreshIndex, again |-> <<>>]
    /\ UNCHANGED <<component, votes, userVote, isLoading, voteVars,
                   lifeVars, pageVars, newMessage, username, replyingTo, storedName,
                   inserts>>

FilterNext ==
    \/ \E t \in FilterTexts : CallContainsProfanity(t)
    \/ \E t \in FilterTexts : CallCensorMessage(t)

SpecFilter == FilterInit /\ [][FilterNext]_vars

\* ------------------------------------------------------------------------
\* The filter on one text (SpecCensor): the text is drawn from the texts
\* made of at most MaxPieces pieces and from every casing of every banned
\* word; the calls are made on that text and on the censored text.
\* ------------------------------------------------------------------------
MaxPieces == 3

Pieces ==
    { <<"a">>, <<"s">>, <<"$">>, <<" ">>, <<",">>, <<" ", "s">>,
      <<"a", "s", "s">>, <<"s", "l", "u", "t">> }

RECURSIVE Flatten(_)
Flatten(ps) == IF ps = <<>> THEN <<>> ELSE Head(ps) \o Flatten(Tail(ps))

PieceTexts ==
    {Flatten(ps) : ps \in UNION {[1..n -> Pieces] : n \in 0..MaxPieces}}

Casings(word) ==
    {[k \in 1..Len(word) |-> IF m[k] THEN ToUpper(word[k]) ELSE word[k]] :
        m \in [1..Len(word) -> BOOLEAN]}

WordCasings == UNION {Casings(BANNED_WORDS[j]) : j \in 1..Len(BANNED_WORDS)}

CensorInputs == PieceTexts \cup WordCasings

CensorInit ==
    /\ component = "LiveChat"
    /\ WidgetFixed
    /\ ChatFixed
    /\ lastIndex = FreshIndex
    /\ \E t \in CensorInputs :
          call = [op |-> "input", input |-> t, output |-> <<>>,
                  detected |-> FALSE, stale |-> FALSE, again |-> <<>>]

\* containsProfanity(input)
Detect == CallContainsProfanity(call.input)

\* censored = censorMessage(input)
Censor == CallCensorMessage(call.input)

\* censorMessage(censored)
CensorAgain ==
    /\ call.op = "censorMessage"
    /\ lastIndex' = FreshIndex
    /\ call' = [call EXCEPT !.op = "censorTwice",
                            !.again = censorMessage(call.output),
                            !.stale = (lastIndex # FreshIndex)]
    /\ UNCHANGED <<component, votes, userVote, isLoading, voteVars,
                   lifeVars, pageVars, newMessage, username, replyingTo, storedName,
                   inserts>>

CensorNext == Detect \/ Censor \/ CensorAgain

SpecCensor == CensorInit /\ [][CensorNext]_vars

\* ------------------------------------------------------------------------
\* The LiveChat input row (SpecChat): the visitor types a message and a
\* name, picks a message to reply to (second variant) and sends.
\* ------------------------------------------------------------------------
MaxSends == 1

ChatComponents == {"LiveChat", "LiveChatReply"}

\* what the visitor may type into the message input
ChatMessages ==
    { <<>>, <<" ">>, <<" ", " ">>, <<"o", "k">>, <<" ", "a", "s", "s", " ">>,
      <<"a", "$", "s", "l", "u", "t">> }

\* what the visitor may type into the name input
ChatNames ==
    { <<>>, <<" ">>, <<" ", "B", "o", " ">>, <<"s", "l", "u", "t">> }

\* localStorage 'spandan_username' left by an earlier visit
StoredNames == { <<>>, <<"B", "o">> }

Anonymous == <<"A", "n", "o", "n", "y", "m", "o", "u", "s">>

RECURSIVE TrimStart(_)
TrimStart(t) ==
    IF t # <<>> /\ Head(t) \in WhiteSpace THEN TrimStart(Tail(t)) ELSE t

RECURSIVE TrimEnd(_)
TrimEnd(t) ==
    IF t # <<>> /\ t[Len(t)] \in WhiteSpace
    THEN TrimEnd(SubSeq(t, 1, Len(t) - 1))
    ELSE t

\* String.prototype.trim
Trim(t) == TrimEnd(TrimStart(t))

\* username.trim() || 'Anonymous'
finalUsername(name) == IF Trim(name) = <<>> THEN Anonymous ELSE Trim(name)

\* variant: the name is written as typed
insertRow_RawUsername(c, msg, name, reply) ==
    IF c = "LiveChat"
    THEN [sport_id |-> key, message |-> censorMessage(Trim(msg)),
          username |-> finalUsername(name)]
    ELSE [sport_id |-> key, message |-> censorMessage(Trim(msg)),
          username |-> finalUsername(name), reply_to |-> reply]

\* the row handed to supabase.from('chat_messages').insert
insertRow(c, msg, name, reply) ==
    IF c = "LiveChat"
    THEN [sport_id |-> key, message |-> censorMessage(Trim(msg)),
          username |-> censorMessage(finalUsername(name))]
    ELSE [sport_id |-> key, message |-> censorMessage(Trim(msg)),
          username |-> censorMessage(finalUsername(name)),
          reply_to |-> reply]

Handler(op, t) == [NoCall EXCEPT !.op = op, !.input = t]

ChatInit ==
    /\ component \in ChatComponents
    /\ WidgetFixed
    /\ lastIndex = FreshIndex
    /\ call = NoCall
    /\ newMessage = <<>>
    /\ storedName \in StoredNames
    /\ username = storedName
    /\ replyingTo = NULL
    /\ inserts = <<>>

\* onChange of the message input
TypeMessage(t) ==
    /\ newMessage' = t
    /\ call' = Handler("onChangeMessage", t)
    /\ UNCHANGED <<component, votes, userVote, isLoading, voteVars, lifeVars, pageVars,
                   lastIndex, username, replyingTo, storedName, inserts>>

\* onChange of the name input
TypeUsername(t) ==
    /\ username' = t
    /\ call' = Handler("onChangeUsername", t)
    /\ UNCHANGED <<component, votes, userVote, isLoading, voteVars, lifeVars, pageVars,
                   lastIndex, newMessage, replyingTo, storedName, inserts>>

\* handleReply(message) and cancelReply, second variant only
SetReplyingTo(id) ==
    /\ component = "LiveChatReply"
    /\ replyingTo' = id
    /\ call' = Handler("setReplyingTo", <<>>)
    /\ UNCHANGED <<component, votes, userVote, isLoading, voteVars, lifeVars, pageVars,
                   lastIndex, newMessage, username, storedName, inserts>>

\* handleSend up to the await: a blank message returns at once; otherwise
\* the trimmed name is stored when there is one and the row is sent
HandleSend ==
    /\ call' = Handler("handleSend", newMessage)
    /\ IF Trim(newMessage) = <<>>
       THEN UNCHANGED <<storedName, inserts, lastIndex>>
       ELSE /\ Len(inserts) < MaxSends
            /\ storedName' = IF Trim(username) # <<>>
                             THEN finalUsername(username) ELSE storedName
            /\ inserts' = Append(inserts, insertRow(component, newMessage,
                                                    username, replyingTo))
            /\ lastIndex' = FreshIndex
    /\ UNCHANGED <<component, votes, userVote, isLoading, voteVars, lifeVars, pageVars,
                   newMessage, username, replyingTo>>

\* the insert returns and handleSend resumes: setNewMessage(''), and
\* setReplyingTo(null) in the second variant
HandleSendResume ==
    /\ inserts # <<>>
    /\ inserts' = Tail(inserts)
    /\ newMessage' = <<>>
    /\ replyingTo' = NULL
    /\ call' = Handler("handleSendResume", <<>>)
    /\ UNCHANGED <<component, votes, userVote, isLoading, voteVars, lifeVars, pageVars,
                   lastIndex, username, storedName>>

ChatNext ==
    \/ \E t \in ChatMessages : TypeMessage(t)
    \/ \E t \in ChatNames : TypeUsername(t)
    \/ \E id \in {NULL, "c1"} : SetReplyingTo(id)
    \/ HandleSend
    \/ HandleSendResume

SpecChat == ChatInit /\ [][ChatNext]_vars

\* ------------------------------------------------------------------------
\* The chat-message mirror of LiveChat on one sport (SpecMessages): rows
\* are posted to chat_messages by any client, the bulk read of
\* fetchMessages and the INSERT events of the channel reach the component
\* in any interleaving; events arrive in commit order.
\* ------------------------------------------------------------------------
sportId == "s1"

Sports == {sportId, "s2"}

\* .limit(100)
MessageLimit == 100

\* a row of chat_messages; created_at is the commit time of the insert
Posted(i, k, at) ==
    [id |-> i, sport_id |-> k, created_at |-> at, message |-> <<"h", "i">>,
     username |-> <<"x">>]

\* .order('created_at', { ascending: true })
RECURSIVE OrderByCreatedAt(_)
OrderByCreatedAt(S) ==
    IF S = {} THEN <<>>
    ELSE LET r == CHOOSE x \in S : \A y \in S : x.created_at <= y.created_at
         IN <<r>> \o OrderByCreatedAt(S \ {r})

FirstRows(s, n) == SubSeq(s, 1, IF Len(s) < n THEN Len(s) ELSE n)

\* select('*').eq('sport_id', k).order(created_at).limit(100)
selectMessages(rows, k) ==
    FirstRows(OrderByCreatedAt({r \in rows : r.sport_id = k}), MessageLimit)

\* setMessages((prev) => [...prev, payload.new])
appendMessage(prev, row) == Append(prev, row)

MessageStores == {{}, {Posted(1, sportId, 1), Posted(2, "s2", 2)}}

\* everything but the message mirror and its table
notMessages ==
    <<component, votes, userVote, isLoading, isVoting, net, voteLog, clean,
      dups, mounted, key, ident, channels, runs, reads, textVars, pageVars>>

MessagesInit ==
    /\ component = "LiveChat"
    /\ store \in MessageStores
    /\ nextId = Cardinality(store) + 1
    /\ log = <<>>
    /\ fetch = [st |-> "sent", ok |-> FALSE, data |-> <<>>]
    /\ cursor = 1
    /\ messages = <<>>
    /\ chatLoading = TRUE
    /\ votes = <<>>
    /\ userVote = NULL
    /\ isLoading = FALSE
    /\ isVoting = FALSE
    /\ net = {}
    /\ voteLog = <<>>
    /\ clean = TRUE
    /\ dups = 0
    /\ mounted = TRUE
    /\ key = sportId
    /\ ident = userIdentifier
    /\ channels = {Channel("chat", sportId, 1), Channel("reactions", sportId, 1)}
    /\ runs = 1
    /\ reads = {}
    /\ TextFixed

\* some client inserts a row into chat_messages (the model stops when the
\* stream is full)
PostMessage(k) ==
    /\ Len(log) < MaxLog
    /\ LET r == Posted(nextId, k, nextId)
       IN /\ store' = store \cup {r}
          /\ log' = Append(log, Payload("INSERT", r, NoRow))
    /\ nextId' = nextId + 1
    /\ UNCHANGED <<fetch, cursor, messages, chatLoading, notMessages>>

\* the store answers the select of fetchMessages
MessagesServe ==
    /\ fetch.st = "sent"
    /\ fetch' = [st |-> "replied", ok |-> TRUE,
                 data |-> selectMessages(store, sportId)]
    /\ UNCHANGED <<store, nextId, log, cursor, messages, chatLoading,
                   notMessages>>

\* the select fails: data is null
MessagesFail ==
    /\ fetch.st = "sent"
    /\ fetch' = [st |-> "replied", ok |-> FALSE, data |-> <<>>]
    /\ UNCHANGED <<store, nextId, log, cursor, messages, chatLoading,
                   notMessages>>

\* continuation of fetchMessages: if (data) setMessages(data);
\* setIsLoading(false)
MessagesApply ==
    /\ fetch.st = "replied"
    /\ messages' = IF fetch.ok THEN fetch.data ELSE messages
    /\ chatLoading' = FALSE
    /\ fetch' = [fetch EXCEPT !.st = "done"]
    /\ UNCHANGED <<store, nextId, log, cursor, notMessages>>

\* the next INSERT event; the channel filter is sport_id=eq.sportId
MessagesDeliver ==
    /\ cursor <= Len(log)
    /\ messages' = IF log[cursor].new.sport_id = sportId
                   THEN appendMessage(messages, log[cursor].new)
                   ELSE messages
    /\ cursor' = cursor + 1
    /\ UNCHANGED <<store, nextId, log, fetch, chatLoading, notMessages>>

MessagesNext ==
    \/ \E k \in Sports : PostMessage(k)
    \/ MessagesServe
    \/ MessagesFail
    \/ MessagesApply
    \/ MessagesDeliver

SpecMessages == MessagesInit /\ [][MessagesNext]_vars

\* ------------------------------------------------------------------------
\* The reaction mirror of LiveChat (SpecReactions): fetchReactions, the
\* reactions channel, toggleReaction, reactions of another user, and a
\* change of the sportId prop.  chat_messages is fixed here.
\* ------------------------------------------------------------------------
\* changes of the sportId prop
MaxSportChanges == 1

\* toggleReaction calls
MaxToggles == 2

\* one of REACTION_EMOJIS
Emojis == {"like"}

Reaction(i, m, e, u) ==
    [id |-> i, message_id |-> m, emoji |-> e, user_identifier |-> u]

\* chat_messages: the second sport has a message or none
ReactionRooms ==
    {{Posted(1, sportId, 1)}, {Posted(1, sportId, 1), Posted(2, "s2", 2)}}

ReactionStores == {{}, {Reaction(1, 1, "like", userIdentifier)}}

\* select('id').eq('sport_id', k)
messageIds(rows, k) == {r.id : r \in {x \in rows : x.sport_id = k}}

\* select('*').in('message_id', messageIds)
selectReactions(rows, ids) == ToSeqById({r \in rows : r.message_id \in ids})

\* reactions.find(r => r.message_id === messageId && r.emoji === emoji &&
\*                     r.user_identifier === userIdentifier)
FindReaction(s, m, e, u) ==
    LET hits == {k \in 1..Len(s) : /\ s[k].message_id = m
                                   /\ s[k].emoji = e
                                   /\ s[k].user_identifier = u}
    IN IF hits = {} THEN NoRow
       ELSE s[CHOOSE k \in hits : \A j \in hits : k <= j]

\* handler of reactionChannel (event: '*', no filter)
applyReactionEvent(prev, payload) ==
    IF payload.eventType = "INSERT" THEN Append(prev, payload.new)
    ELSE IF payload.eventType = "DELETE" THEN FilterOutId(prev, payload.old.id)
    ELSE prev

\* the request toggleReaction awaits
toggleRequest(prev, m, e, u) ==
    LET existingReaction == FindReaction(prev, m, e, u)
    IN IF existingReaction # NoRow
       THEN [kind |-> "delete", id |-> existingReaction.id, message_id |-> m,
             emoji |-> e, user_identifier |-> u]
       ELSE [kind |-> "insert", id |-> 0, message_id |-> m, emoji |-> e,
             user_identifier |-> u]

\* UNIQUE(message_id, emoji, user_identifier)
Conflicts(rows, m, e, u) ==
    \E r \in rows : r.message_id = m /\ r.emoji = e /\ r.user_identifier = u

\* fetchReactions of one effect run; the closure keeps sportId
ReactionRead(k, run) ==
    [key |-> k, run |-> run, st |-> "sent", ids |-> {}, ok |-> FALSE,
     data |-> <<>>]

\* everything but the reaction mirror, its table and its calls
notReactions ==
    <<component, store, votes, userVote, isLoading, isVoting, voteLog, clean,
      dups, mounted, ident, messages, chatLoading, textVars, leaderboards,
      sportsLoading, matches, storage, instances>>

ReactionsInit ==
    /\ component = "LiveChat"
    /\ store \in ReactionRooms
    /\ rstore \in ReactionStores
    /\ nextId = Cardinality(rstore) + 1
    /\ log = <<>>
    /\ cursor = 1
    /\ reactions = <<>>
    /\ toggles = <<>>
    /\ net = {}
    /\ key = sportId
    /\ runs = 1
    /\ channels = openChannels("LiveChat", sportId, 1)
    /\ reads = {ReactionRead(sportId, 1)}
    /\ fetch = [st |-> "sent", ok |-> FALSE, data |-> <<>>]
    /\ votes = <<>>
    /\ userVote = NULL
    /\ isLoading = FALSE
    /\ isVoting = FALSE
    /\ voteLog = <<>>
    /\ clean = TRUE
    /\ dups = 0
    /\ mounted = TRUE
    /\ ident = userIdentifier
    /\ messages = <<>>
    /\ chatLoading = TRUE
    /\ lastIndex = FreshIndex
    /\ call = NoCall
    /\ newMessage = <<>>
    /\ username = <<>>
    /\ replyingTo = NULL
    /\ storedName = <<>>
    /\ inserts = <<>>
    /\ leaderboards = <<>>
    /\ sportsLoading = FALSE
    /\ matches = {}
    /\ storage = userIdentifier
    /\ instances = <<>>

\* another user reacts to a message of any sport
ReactOther(m, e, u) ==
    /\ Len(log) < MaxLog
    /\ ~Conflicts(rstore, m, e, u)
    /\ LET r == Reaction(nextId, m, e, u)
       IN /\ rstore' = rstore \cup {r}
          /\ log' = Append(log, Payload("INSERT", r, NoRow))
    /\ nextId' = nextId + 1
    /\ UNCHANGED <<cursor, reactions, toggles, net, key, runs, channels,
                   reads, fetch, notReactions>>

\* the parent passes another sportId: cleanup, then the effect body again
ChangeSport(k) ==
    /\ k # key
    /\ runs <= MaxSportChanges
    /\ key' = k
    /\ runs' = runs + 1
    /\ channels' = releaseChannels(channels, runs)
                      \cup openChannels("LiveChat", k, runs + 1)
    /\ reads' = reads \cup {ReactionRead(k, runs + 1)}
    /\ UNCHANGED <<rstore, nextId, log, cursor, reactions, toggles, net,
                   fetch, notReactions>>

\* the store answers the first select of fetchReactions (or fails: null)
IdsServe(r, ok) ==
    /\ r \in reads
    /\ r.st = "sent"
    /\ reads' = (reads \ {r}) \cup
                   {[r EXCEPT !.st = "ids", !.ok = ok,
                              !.ids = IF ok THEN messageIds(store, r.key)
                                      ELSE {}]}
    /\ UNCHANGED <<rstore, nextId, log, cursor, reactions, toggles, net, key,
                   runs, channels, fetch, notReactions>>

\* if (messagesData && messagesData.length > 0): the second select is
\* issued, otherwise fetchReactions ends
ReactionsIssue(r) ==
    /\ r \in reads
    /\ r.st = "ids"
    /\ IF r.ok /\ r.ids # {}
       THEN /\ reads' = (reads \ {r}) \cup {[r EXCEPT !.st = "sent2"]}
            /\ UNCHANGED fetch
       ELSE /\ reads' = reads \ {r}
            /\ fetch' = [st |-> "done", ok |-> r.ok, data |-> <<>>]
    /\ UNCHANGED <<rstore, nextId, log, cursor, reactions, toggles, net, key,
                   runs, channels, notReactions>>

\* the store answers the second select (or fails: null)
ReactionsServe(r, ok) ==
    /\ r \in reads
    /\ r.st = "sent2"
    /\ reads' = (reads \ {r}) \cup
                   {[r EXCEPT !.st = "replied", !.ok = ok,
                              !.data = IF ok
                                       THEN selectReactions(rstore, r.ids)
                                       ELSE <<>>]}
    /\ UNCHANGED <<rstore, nextId, log, cursor, reactions, toggles, net, key,
                   runs, channels, fetch, notReactions>>

\* if (reactionsData) setReactions(reactionsData)
ReactionsApply(r) ==
    /\ r \in reads
    /\ r.st = "replied"
    /\ reads' = reads \ {r}
    /\ reactions' = IF r.ok THEN r.data ELSE reactions
    /\ fetch' = [st |-> "done", ok |-> r.ok, data |-> <<>>]
    /\ UNCHANGED <<rstore, nextId, log, cursor, toggles, net, key, runs,
                   channels, notReactions>>

\* the next change of chat_reactions reaches the channel
ReactionDeliver ==
    /\ cursor <= Len(log)
    /\ reactions' = applyReactionEvent(reactions, log[cursor])
    /\ cursor' = cursor + 1
    /\ UNCHANGED <<rstore, nextId, log, toggles, net, key, runs, channels,
                   reads, fetch, notReactions>>

OwnReaction(m, e) == Conflicts(rstore, m, e, ident)

\* toggleReaction(messageId, emoji) up to its await; the message is one of
\* the shown sport
ToggleReaction(m, e) ==
    /\ Len(toggles) < MaxToggles
    /\ ident # ""
    /\ m \in messageIds(store, key)
    /\ net' = net \cup {[toggleRequest(reactions, m, e, ident)
                           EXCEPT !.id = IF @ = 0 THEN -Len(toggles) - 1 ELSE @]}
    /\ toggles' = Append(toggles, [message_id |-> m, emoji |-> e,
                                   before |-> OwnReaction(m, e),
                                   alone |-> (net = {})])
    /\ UNCHANGED <<rstore, nextId, log, cursor, reactions, key, runs,
                   channels, reads, fetch, notReactions>>

\* the store executes the request; toggleReaction ends with the await
ReactionWrite(q) ==
    /\ q \in net
    /\ Len(log) < MaxLog
    /\ net' = net \ {q}
    /\ IF q.kind = "insert"
       THEN IF Conflicts(rstore, q.message_id, q.emoji, q.user_identifier)
            THEN UNCHANGED <<rstore, log, nextId>>
            ELSE LET r == Reaction(nextId, q.message_id, q.emoji,
                                   q.user_identifier)
                 IN /\ rstore' = rstore \cup {r}
                    /\ log' = Append(log, Payload("INSERT", r, NoRow))
                    /\ nextId' = nextId + 1
       ELSE /\ IF \E r \in rstore : r.id = q.id
               THEN LET r == CHOOSE x \in rstore : x.id = q.id
                    IN /\ rstore' = rstore \ {r}
                       /\ log' = Append(log, Payload("DELETE", NoRow, r))
               ELSE UNCHANGED <<rstore, log>>
            /\ UNCHANGED nextId
    /\ UNCHANGED <<cursor, reactions, toggles, key, runs, channels, reads,
                   fetch, notReactions>>

ReactionsNext ==
    \/ \E r \in store, e \in Emojis, u \in OtherVoters : ReactOther(r.id, e, u)
    \/ \E k \in Sports : ChangeSport(k)
    \/ \E r \in reads, ok \in BOOLEAN : IdsServe(r, ok)
    \/ \E r \in reads : ReactionsIssue(r)
    \/ \E r \in reads, ok \in BOOLEAN : ReactionsServe(r, ok)
    \/ \E r \in reads : ReactionsApply(r)
    \/ ReactionDeliver
    \/ \E r \in store, e \in Emojis : ToggleReaction(r.id, e)
    \/ \E q \in net : ReactionWrite(q)

SpecReactions == ReactionsInit /\ [][ReactionsNext]_vars

\* ------------------------------------------------------------------------
\* FanLeaderboard: the leaderboards computed by fetchVotes and the total
\* the page shows
\* ------------------------------------------------------------------------
\* sports of category 'team', in the order of useSports()
TeamSportIds == <<"s1", "s2">>

\* teamSports when it holds n sports
teamSportsOf(n) == SubSeq(TeamSportIds, 1, n)

MatchRow(i, k) == [id |-> i, sport_id |-> k]

\* rows of table matches
MatchRows == {MatchRow("m1", "s1"), MatchRow("m2", "s1"), MatchRow("m3", "s2")}

\* a row of match_votes; every row is of another voter
BoardVote(i, m, t) ==
    [id |-> i, match_id |-> m, team_voted |-> t,
     user_identifier |-> <<"user", i>>]

\* teamVotes[team] = (teamVotes[team] || 0) + 1, keys in insertion order
RECURSIVE CountTeams(_, _)
CountTeams(vs, acc) ==
    IF vs = <<>> THEN acc
    ELSE LET team == Head(vs).team_voted
             at == {k \in 1..Len(acc) : acc[k].team = team}
         IN IF team = "" THEN CountTeams(Tail(vs), acc)
            ELSE IF at = {}
            THEN CountTeams(Tail(vs),
                            Append(acc, [team |-> team, votes |-> 1]))
            ELSE CountTeams(Tail(vs),
                            [k \in 1..Len(acc) |->
                                IF k \in at
                                THEN [acc[k] EXCEPT !.votes = @ + 1]
                                ELSE acc[k]])

\* insertion of one entry into a list sorted by votes, descending, behind
\* the entries with equal votes (Array.prototype.sort is stable)
RECURSIVE InsertByVotes(_, _)
InsertByVotes(sorted, x) ==
    IF sorted = <<>> THEN <<x>>
    ELSE IF Head(sorted).votes >= x.votes
         THEN <<Head(sorted)>> \o InsertByVotes(Tail(sorted), x)
         ELSE <<x>> \o sorted

\* .sort((a, b) => b.votes - a.votes)
RECURSIVE SortByVotes(_)
SortByVotes(s) ==
    IF s = <<>> THEN <<>>
    ELSE InsertByVotes(SortByVotes(SubSeq(s, 1, Len(s) - 1)), s[Len(s)])

\* Object.entries(teamVotes).map(...).sort(...).slice(0, 3)
topTeams(sportVotes) == FirstRows(SortByVotes(CountTeams(sportVotes, <<>>)), 3)

\* votes.filter(v => sportMatchIds.includes(v.match_id))
RECURSIVE VotesOfMatches(_, _)
VotesOfMatches(vs, ids) ==
    IF vs = <<>> THEN <<>>
    ELSE IF Head(vs).match_id \in ids
         THEN <<Head(vs)>> \o VotesOfMatches(Tail(vs), ids)
         ELSE VotesOfMatches(Tail(vs), ids)

\* teamSports.map(sport => ({ sportId, topTeams }))
sportLeaderboards(sports, ms, vs) ==
    [i \in 1..Len(sports) |->
        [sportId |-> sports[i],
         topTeams |-> topTeams(VotesOfMatches(vs,
                         {m.id : m \in {x \in ms : x.sport_id = sports[i]}}))]]

RECURSIVE SumVotes(_)
SumVotes(teams) ==
    IF teams = <<>> THEN 0 ELSE Head(teams).votes + SumVotes(Tail(teams))

\* leaderboards.reduce((sum, lb) => sum + lb.topTeams.reduce(...), 0)
RECURSIVE totalVotes(_)
totalVotes(lbs) ==
    IF lbs = <<>> THEN 0
    ELSE SumVotes(Head(lbs).topTeams) + totalVotes(Tail(lbs))

\* ------------------------------------------------------------------------
\* FanLeaderboard as a page (SpecBoard): useSports() resolves, the fetch
\* effect runs on [teamSports.length], the realtime handler fires on every
\* change of match_votes.  key is teamSports.length.
\* ------------------------------------------------------------------------
MaxTeamSports == 1

\* fetchVotes of one effect run; the closure keeps teamSports
BoardRead(n, run) ==
    [key |-> n, run |-> run, st |-> "sent", ok |-> FALSE, matches |-> {},
     data |-> <<>>]

\* everything but the page, its tables and its reads
notBoard ==
    <<component, votes, userVote, isVoting, fetch, net, voteLog, clean, dups,
      mounted, ident, messages, chatLoading, textVars, reactions, rstore,
      toggles, storage, instances>>

BoardInit ==
    /\ component = "FanLeaderboard"
    /\ sportsLoading = TRUE
    /\ key = 0
    /\ leaderboards = <<>>
    /\ isLoading = TRUE
    /\ runs = 1
    /\ channels = openChannels("FanLeaderboard", 0, 1)
    /\ reads = {}
    /\ matches \in {{}, MatchRows}
    /\ store \in {{}, {BoardVote(1, "m1", teamA)}}
    /\ nextId = Cardinality(store) + 1
    /\ log = <<>>
    /\ cursor = 1
    /\ votes = <<>>
    /\ userVote = NULL
    /\ isVoting = FALSE
    /\ fetch = [st |-> "done", ok |-> FALSE, data |-> <<>>]
    /\ net = {}
    /\ voteLog = <<>>
    /\ clean = TRUE
    /\ dups = 0
    /\ mounted = TRUE
    /\ ident = ""
    /\ messages = <<>>
    /\ chatLoading = TRUE
    /\ lastIndex = FreshIndex
    /\ call = NoCall
    /\ newMessage = <<>>
    /\ username = <<>>
    /\ replyingTo = NULL
    /\ storedName = <<>>
    /\ inserts = <<>>
    /\ reactions = <<>>
    /\ rstore = {}
    /\ toggles = <<>>
    /\ storage = userIdentifier
    /\ instances = <<>>

\* useSports() resolves with n team sports; both effects depend on
\* [teamSports.length]: they rerun iff n differs from the length at mount
SportsLoaded(n) ==
    /\ sportsLoading
    /\ sportsLoading' = FALSE
    /\ key' = n
    /\ IF n # key
       THEN /\ runs' = runs + 1
            /\ channels' = releaseChannels(channels, runs)
                              \cup openChannels("FanLeaderboard", n, runs + 1)
            /\ reads' = IF n > 0 THEN reads \cup {BoardRead(n, runs + 1)}
                        ELSE reads
       ELSE UNCHANGED <<runs, channels, reads>>
    /\ UNCHANGED <<leaderboards, isLoading, matches, store, nextId, log,
                   cursor, notBoard>>

\* some client casts a vote on a match
CastVote(m, t) ==
    /\ Len(log) < MaxLog
    /\ LET r == BoardVote(nextId, m, t)
       IN /\ store' = store \cup {r}
          /\ log' = Append(log, Payload("INSERT", r, NoRow))
    /\ nextId' = nextId + 1
    /\ UNCHANGED <<sportsLoading, key, leaderboards, isLoading, runs,
                   channels, reads, matches, cursor, notBoard>>

\* the store answers the select on matches (or fails: null)
BoardMatchesServe(r, ok) ==
    /\ r \in reads
    /\ r.st = "sent"
    /\ reads' = (reads \ {r}) \cup
                   {[r EXCEPT !.st = "matches", !.ok = ok,
                              !.matches =
                                  IF ok
                                  THEN {m \in matches : \E i \in 1..r.key :
                                           m.sport_id = teamSportsOf(r.key)[i]}
                                  ELSE {}]}
    /\ UNCHANGED <<sportsLoading, key, leaderboards, isLoading, runs,
                   channels, matches, store, nextId, log, cursor, notBoard>>

\* if (!matches || matches.length === 0) { setIsLoading(false); return; }
\* otherwise the select on match_votes is issued
BoardVotesIssue(r) ==
    /\ r \in reads
    /\ r.st = "matches"
    /\ IF r.ok /\ r.matches # {}
       THEN /\ reads' = (reads \ {r}) \cup {[r EXCEPT !.st = "sent2"]}
            /\ UNCHANGED isLoading
       ELSE /\ reads' = reads \ {r}
            /\ isLoading' = FALSE
    /\ UNCHANGED <<sportsLoading, key, leaderboards, runs, channels, matches,
                   store, nextId, log, cursor, notBoard>>

\* the store answers the select on match_votes (or fails: null)
BoardVotesServe(r, ok) ==
    /\ r \in reads
    /\ r.st = "sent2"
    /\ reads' = (reads \ {r}) \cup
                   {[r EXCEPT !.st = "replied", !.ok = ok,
                              !.data =
                                  IF ok
                                  THEN ToSeqById({v \in store : \E m \in r.matches :
                                                     v.match_id = m.id})
                                  ELSE <<>>]}
    /\ UNCHANGED <<sportsLoading, key, leaderboards, isLoading, runs,
                   channels, matches, store, nextId, log, cursor, notBoard>>

\* if (!votes) { setIsLoading(false); return; } ...
\* setLeaderboards(sportLeaderboards); setIsLoading(false)
BoardApply(r) ==
    /\ r \in reads
    /\ r.st = "replied"
    /\ reads' = reads \ {r}
    /\ leaderboards' = IF r.ok
                       THEN sportLeaderboards(teamSportsOf(r.key), r.matches,
                                              r.data)
                       ELSE leaderboards
    /\ isLoading' = FALSE
    /\ UNCHANGED <<sportsLoading, key, runs, channels, matches, store, nextId,
                   log, cursor, notBoard>>

\* handler of channel 'leaderboard-votes': setIsLoading(true);
\* setLeaderboards(prev => [...prev]); no effect depends on leaderboards
BoardDeliver ==
    /\ cursor <= Len(log)
    /\ cursor' = cursor + 1
    /\ isLoading' = IF key > 0 THEN TRUE ELSE isLoading
    /\ leaderboards' = leaderboards
    /\ UNCHANGED <<sportsLoading, key, runs, channels, reads, matches, store,
                   nextId, log, notBoard>>

BoardNext ==
    \/ \E n \in 0..MaxTeamSports : SportsLoaded(n)
    \/ \E m \in MatchRows, t \in Teams : CastVote(m.id, t)
    \/ \E r \in reads, ok \in BOOLEAN : BoardMatchesServe(r, ok)
    \/ \E r \in reads : BoardVotesIssue(r)
    \/ \E r \in reads, ok \in BOOLEAN : BoardVotesServe(r, ok)
    \/ \E r \in reads : BoardApply(r)
    \/ BoardDeliver

SpecBoard == BoardInit /\ [][BoardNext]_vars

\* the backend answers every request, every continuation runs, the
\* transport delivers every event, useSports() resolves
BoardFairness ==
    /\ WF_vars(\E n \in 0..MaxTeamSports : SportsLoaded(n))
    /\ WF_vars(\E r \in reads, ok \in BOOLEAN : BoardMatchesServe(r, ok))
    /\ WF_vars(\E r \in reads : BoardVotesIssue(r))
    /\ WF_vars(\E r \in reads, ok \in BOOLEAN : BoardVotesServe(r, ok))
    /\ WF_vars(\E r \in reads : BoardApply(r))
    /\ WF_vars(BoardDeliver)

SpecBoardFair == SpecBoard /\ BoardFairness

\* ------------------------------------------------------------------------
\* The leaderboard computation on one fetched set of votes (SpecTotal):
\* the votes are drawn from the sequences of at most MaxBoardVotes rows on
\* the matches of the team sports.
\* ------------------------------------------------------------------------
MaxBoardVotes == 4

\* what a vote on a match can name: one of its two teams, or nothing
BoardChoices ==
    {<<"m1", teamA>>, <<"m1", teamB>>, <<"m1", "">>, <<"m2", "C">>,
     <<"m2", "D">>, <<"m3", "E">>}

FetchedVotes ==
    UNION {{[i \in 1..n |-> BoardVote(i, c[i][1], c[i][2])] :
               c \in [1..n -> BoardChoices]} : n \in 0..MaxBoardVotes}

TotalInit ==
    /\ component = "FanLeaderboard"
    /\ sportsLoading = FALSE
    /\ key = Len(TeamSportIds)
    /\ matches = MatchRows
    /\ votes \in FetchedVotes
    /\ leaderboards = <<>>
    /\ isLoading = TRUE
    /\ runs = 2
    /\ channels = openChannels("FanLeaderboard", key, 2)
    /\ reads = {}
    /\ store = {}
    /\ nextId = 1
    /\ log = <<>>
    /\ cursor = 1
    /\ userVote = NULL
    /\ isVoting = FALSE
    /\ fetch = [st |-> "done", ok |-> FALSE, data |-> <<>>]
    /\ net = {}
    /\ voteLog = <<>>
    /\ clean = TRUE
    /\ dups = 0
    /\ mounted = TRUE
    /\ ident = ""
    /\ messages = <<>>
    /\ chatLoading = TRUE
    /\ lastIndex = FreshIndex
    /\ call = NoCall
    /\ newMessage = <<>>
    /\ username = <<>>
    /\ replyingTo = NULL
    /\ storedName = <<>>
    /\ inserts = <<>>
    /\ reactions = <<>>
    /\ rstore = {}
    /\ toggles = <<>>
    /\ storage = userIdentifier
    /\ instances = <<>>

\* fetchVotes after its second await, with votes the rows it fetched
ComputeLeaderboards ==
    /\ isLoading
    /\ leaderboards' = sportLeaderboards(teamSportsOf(key), matches, votes)
    /\ isLoading' = FALSE
    /\ UNCHANGED <<sportsLoading, key, runs, channels, reads, matches, store,
                   nextId, log, cursor, notBoard>>

TotalNext == ComputeLeaderboards

SpecTotal == TotalInit /\ [][TotalNext]_vars

\* ------------------------------------------------------------------------
\* The vote tally of a render (SpecTally): the collection is drawn from
\* the collections of at most MaxTally votes for teamA, for teamB and for
\* some other team name.
\* ------------------------------------------------------------------------
MaxTally == 8

\* a team_voted that is neither teamA nor teamB
otherTeam == "C"

RECURSIVE Repeat(_, _)
Repeat(x, n) == IF n = 0 THEN <<>> ELSE <<x>> \o Repeat(x, n - 1)

TallyRows(a, b, c) ==
    LET teams == Repeat(teamA, a) \o Repeat(otherTeam, c) \o Repeat(teamB, b)
    IN [i \in 1..Len(teams) |-> VoteData(i, teams[i], <<"user", i>>)]

TallyInputs ==
    {TallyRows(n[1], n[2], n[3]) :
        n \in {x \in (0..MaxTally) \X (0..MaxTally) \X (0..MaxTally) :
                  x[1] + x[2] + x[3] <= MaxTally}}

\* votes.filter(v => v.team_voted === team).length
CountTeam(vs, team) ==
    Cardinality({i \in 1..Len(vs) : vs[i].team_voted = team})

\* Math.round((n / total) * 100): the nearest integer, a tie rounded up.
\* Ties need 200 n / total odd, so total a multiple of 8, where n / total
\* and the product are exact in binary floating point; elsewhere the value
\* is at least 1 / (2 total) away from a tie
roundPercent(n, total) == (200 * n + total) \div (2 * total)

\* teamAPercentage, teamBPercentage
percentages(vs) ==
    LET teamAVotes == CountTeam(vs, teamA)
        teamBVotes == CountTeam(vs, teamB)
        total == teamAVotes + teamBVotes
    IN [totalVotes |-> total,
        teamAPercentage |-> IF total > 0 THEN roundPercent(teamAVotes, total)
                            ELSE 50,
        teamBPercentage |-> IF total > 0 THEN roundPercent(teamBVotes, total)
                            ELSE 50]

TallyInit ==
    /\ component \in Components
    /\ votes \in TallyInputs
    /\ userVote = NULL
    /\ isLoading = FALSE
    /\ store = {}
    /\ nextId = 1
    /\ log = <<>>
    /\ isVoting = FALSE
    /\ fetch = [st |-> "done", ok |-> TRUE, data |-> votes]
    /\ cursor = 1
    /\ net = {}
    /\ voteLog = <<>>
    /\ clean = TRUE
    /\ dups = 0
    /\ LifeFixed
    /\ TextFixed

\* a render of the widget computes the tally from votes
RenderTally ==
    /\ call.op = "none"
    /\ call' = [NoCall EXCEPT !.op = "tally", !.output = percentages(votes)]
    /\ UNCHANGED <<component, votes, userVote, isLoading, voteVars, lifeVars,
                   pageVars, lastIndex, newMessage, username, replyingTo,
                   storedName, inserts>>

TallyNext == RenderTally

SpecTally == TallyInit /\ [][TallyNext]_vars

\* ------------------------------------------------------------------------
\* The schedule page (SpecSchedule): sortedMatches of one render, for the
\* matches of the selected day and a sport filter, with an empty search
\* box.  The matches are drawn from the lists of at most MaxMatches rows.
\* ------------------------------------------------------------------------
MaxMatches == 3

\* match_time values, as the import template writes them
MatchTimes ==
    { <<"9", ":", "0", "0", " ", "A", "M">>,
      <<"1", "0", ":", "0", "0", " ", "A", "M">>,
      <<"1", ":", "0", "0", " ", "P", "M">> }

\* sports.category of the two sports
CategoryOf(k) == IF k = "s1" THEN "team" ELSE "individual"

ScheduleRow(i, k, time) ==
    [id |-> i, sport_id |-> k, match_time |-> time,
     sports |-> [category |-> CategoryOf(k)]]

ScheduleLists ==
    UNION {{[i \in 1..n |-> ScheduleRow(i, c[i][1], c[i][2])] :
               c \in [1..n -> Sports \X MatchTimes]} : n \in 0..MaxMatches}

\* filterSportId: 'all' (the only value of the page without the select)
SportFilters == {"all", "s1"}

\* filterBySearch with searchQuery empty
filterBySearch(match, filterSportId) ==
    filterSportId = "all" \/ match.sport_id = filterSportId

RECURSIVE FilterMatches(_, _)
FilterMatches(ms, f) ==
    IF ms = <<>> THEN <<>>
    ELSE IF filterBySearch(Head(ms), f)
         THEN <<Head(ms)>> \o FilterMatches(Tail(ms), f)
         ELSE FilterMatches(Tail(ms), f)

\* match_time.replace(/[^0-9:]/g, '')
RECURSIVE stripTime(_)
stripTime(t) ==
    IF t = <<>> THEN <<>>
    ELSE IF Head(t) \in Digits \cup {":"}
         THEN <<Head(t)>> \o stripTime(Tail(t))
         ELSE stripTime(Tail(t))

\* collation order of the characters left: the colon, a punctuation mark,
\* sorts before the digits
CollationOrder == <<":", "0", "1", "2", "3", "4", "5", "6", "7", "8", "9">>

Weight(ch) == CHOOSE k \in 1..Len(CollationOrder) : CollationOrder[k] = ch

\* a.localeCompare(b) on such strings: -1, 0 or 1
RECURSIVE localeCompare(_, _)
localeCompare(a, b) ==
    IF a = <<>> THEN (IF b = <<>> THEN 0 ELSE -1)
    ELSE IF b = <<>> THEN 1
    ELSE IF Weight(Head(a)) < Weight(Head(b)) THEN -1
    ELSE IF Weight(Head(a)) > Weight(Head(b)) THEN 1
    ELSE localeCompare(Tail(a), Tail(b))

\* the comparator of the sort
compareTimes(a, b) ==
    localeCompare(stripTime(a.match_time), stripTime(b.match_time))

\* insertion behind the entries that do not compare greater (the sort of
\* Array.prototype.sort is stable)
RECURSIVE InsertByTime(_, _)
InsertByTime(sorted, x) ==
    IF sorted = <<>> THEN <<x>>
    ELSE IF compareTimes(Head(sorted), x) <= 0
         THEN <<Head(sorted)>> \o InsertByTime(Tail(sorted), x)
         ELSE <<x>> \o sorted

RECURSIVE SortByTime(_)
SortByTime(s) ==
    IF s = <<>> THEN <<>>
    ELSE InsertByTime(SortByTime(SubSeq(s, 1, Len(s) - 1)), s[Len(s)])

\* matches?.slice().filter(filterBySearch).sort(...) || []
sortedMatches(ms, f) == SortByTime(FilterMatches(ms, f))

\* sortedMatches.filter(m => m.sports?.category === category)
RECURSIVE CategoryMatches(_, _)
CategoryMatches(ms, category) ==
    IF ms = <<>> THEN <<>>
    ELSE IF Head(ms).sports.category = category
         THEN <<Head(ms)>> \o CategoryMatches(Tail(ms), category)
         ELSE CategoryMatches(Tail(ms), category)

ScheduleInit ==
    /\ component = "Schedule"
    /\ WidgetFixed
    /\ ChatFixed
    /\ lastIndex = FreshIndex
    /\ \E ms \in ScheduleLists, f \in SportFilters :
          call = [NoCall EXCEPT !.op = "matches",
                                !.input = [matches |-> ms, filterSportId |-> f]]

\* a render of the page
RenderSchedule ==
    /\ call.op = "matches"
    /\ call' = [call EXCEPT !.op = "sortedMatches",
                            !.output = sortedMatches(call.input.matches,
                                                     call.input.filterSportId)]
    /\ UNCHANGED <<component, votes, userVote, isLoading, voteVars, lifeVars,
                   pageVars, lastIndex, newMessage, username, replyingTo,
                   storedName, inserts>>

ScheduleNext == RenderSchedule

SpecSchedule == ScheduleInit /\ [][ScheduleNext]_vars

\* ------------------------------------------------------------------------
\* The voter identifier of the device (SpecDevice): components mount in
\* any order on one localStorage; each runs its identifier effect after its
\* first render.
\* ------------------------------------------------------------------------
MaxMounts == 3

\* components with the identifier effect
DeviceComponents == Components \cup ChatComponents

\* values of `user_${Date.now()}_${Math.random()...}`
FreshIds == {"user_1", "user_2"}

\* localStorage before the first mount: nothing, or the identifier of an
\* earlier visit
StoredIds == {"", "user_0"}

\* variant: the effect takes a new identifier whatever is stored
identifierOf_AlwaysFresh(stored, fresh) == fresh

\* let identifier = getItem(...); if (!identifier) identifier = `user_...`
identifierOf(stored, fresh) == IF stored = "" THEN fresh ELSE stored

\* everything but the storage and the mounted instances
notDevice ==
    <<component, votes, userVote, isLoading, voteVars, lifeVars, textVars,
      reactions, rstore, toggles, leaderboards, sportsLoading, matches>>

DeviceInit ==
    /\ component = "MatchVoting"
    /\ storage \in StoredIds
    /\ instances = <<>>
    /\ votes = <<>>
    /\ userVote = NULL
    /\ isLoading = FALSE
    /\ store = {}
    /\ nextId = 1
    /\ log = <<>>
    /\ isVoting = FALSE
    /\ fetch = [st |-> "done", ok |-> FALSE, data |-> <<>>]
    /\ cursor = 1
    /\ net = {}
    /\ voteLog = <<>>
    /\ clean = TRUE
    /\ dups = 0
    /\ LifeFixed
    /\ lastIndex = FreshIndex
    /\ call = NoCall
    /\ ChatFixed
    /\ reactions = <<>>
    /\ rstore = {}
    /\ toggles = <<>>
    /\ leaderboards = <<>>
    /\ sportsLoading = FALSE
    /\ matches = {}

\* first render of a component: useState('')
Mount(c) ==
    /\ Len(instances) < MaxMounts
    /\ instances' = Append(instances, [component |-> c, ident |-> "",
                                       effect |-> FALSE])
    /\ UNCHANGED <<storage, notDevice>>

\* the identifier effect of instance i, once
IdentifierEffect(i, fresh) ==
    /\ i \in 1..Len(instances)
    /\ ~instances[i].effect
    /\ storage' = IF storage = "" THEN fresh ELSE storage
    /\ instances' = [instances EXCEPT ![i].ident = identifierOf(storage, fresh),
                                      ![i].effect = TRUE]
    /\ UNCHANGED notDevice

DeviceNext ==
    \/ \E c \in DeviceComponents : Mount(c)
    \/ \E i \in 1..Len(instances), fresh \in FreshIds : IdentifierEffect(i, fresh)

SpecDevice == DeviceInit /\ [][DeviceNext]_vars

\* ========================================================================
\* Properties
\* ========================================================================
\* identifier carried by a change event
EvtId(e) == IF e.eventType = "DELETE" THEN e.old.id ELSE e.new.id

\* the step delivers the next change of the channel to the handler
DeliverStep == cursor' = cursor + 1

\* the step is the continuation of fetchVotes
FetchApplyStep == fetch.st = "replied" /\ fetch'.st = "done"

\* the step is a handleVote call that passed the entry guard
HandleVoteStep == Len(voteLog') = Len(voteLog) + 1

\* nothing is pending: bulk read applied, every committed change delivered
Quiescent == fetch.st = "done" /\ cursor > Len(log)

\* C1: Mirror convergence.  If the bulk read succeeded and every change was
\* delivered once in commit order, then once the bulk-read response and all
\* pending events are applied the collection holds exactly the remote rows
\* (same rows, each once).
C1_MirrorConverges ==
    (Quiescent /\ fetch.ok) =>
        /\ Range(votes) = store
        /\ Len(votes) = Cardinality(store)

\* C2: Duplicate delivery is idempotent.  When an INSERT event is applied a
\* second time, the collection has exactly one entry with its identifier.
C2_DuplicateInsertIdempotent ==
    [][(dups' = dups + 1 /\ log[cursor - 1].eventType = "INSERT")
        => CountId(votes', log[cursor - 1].new.id) = 1]_vars

\* C3: Identifier uniqueness.  In every reachable mirror state (each change
\* delivered once) no two entries of the collection have the same id.
C3_UniqueIds == \A i \in Ids(votes) : CountId(votes, i) = 1

\* C4: An UPDATE event whose identifier is not in the collection is treated
\* as an insert: after the event the collection contains the new row.
C4_UpdateAbsentInserts ==
    [][(DeliverStep /\ log[cursor].eventType = "UPDATE"
            /\ log[cursor].new.id \notin Ids(votes))
        => log[cursor].new \in Range(votes')]_vars

\* C5: If an INSERT event for X was applied and later a DELETE event for X,
\* with no later insert/update for X, the final collection has no entry X;
\* and a DELETE for an absent identifier leaves the collection unchanged.
InsertThenDelete(x) ==
    \E k2 \in 1..(cursor - 1) :
        /\ log[k2].eventType = "DELETE" /\ log[k2].old.id = x
        /\ \E k1 \in 1..(k2 - 1) :
               log[k1].eventType = "INSERT" /\ log[k1].new.id = x
        /\ \A j \in (k2 + 1)..(cursor - 1) :
               log[j].eventType = "DELETE" \/ log[j].new.id # x

C5_InsertThenDeleteExcludes ==
    Quiescent => \A x \in 1..(nextId - 1) :
                    InsertThenDelete(x) => x \notin Ids(votes)

C5_DeleteAbsentNoop ==
    [][(DeliverStep /\ log[cursor].eventType = "DELETE"
            /\ log[cursor].old.id \notin Ids(votes))
        => votes' = votes]_vars

\* C6: No event is discarded for arriving early.  When the bulk-read
\* response is applied, every change applied before it is still reflected:
\* the row of the last early INSERT/UPDATE of an id is in the collection
\* with that payload, the id of a last early DELETE is absent.
Reflected(e, vs) ==
    IF e.eventType = "DELETE" THEN e.old.id \notin Ids(vs)
    ELSE e.new \in Range(vs)

C6_EarlyEventsKept ==
    [][FetchApplyStep =>
        \A k \in 1..(cursor - 1) :
            (\A j \in (k + 1)..(cursor - 1) : EvtId(log[j]) # EvtId(log[k]))
                => Reflected(log[k], votes')]_vars

\* C7: An UPDATE event for an identifier in the collection replaces exactly
\* that entry: afterwards exactly one entry has the id, it is the new row,
\* and every other entry and the order are unchanged.
C7_UpdateReplacesOne ==
    [][(DeliverStep /\ log[cursor].eventType = "UPDATE"
            /\ log[cursor].new.id \in Ids(votes))
        => LET new == log[cursor].new
           IN /\ CountId(votes', new.id) = 1
              /\ new \in Range(votes')
              /\ Len(votes') = Len(votes)
              /\ \A k \in 1..Len(votes) :
                    votes[k].id # new.id => votes'[k] = votes[k]]_vars

\* C8: Voting A and then, after the first call returned, B leaves the store
\* with exactly one row of the voter and that row has team_voted = B; the
\* store never holds two rows of one voter.
RowsOf(u) == {r \in store : r.user_identifier = u}

C8_OneRowPerVoter ==
    \A u \in OtherVoters \cup {userIdentifier} : Cardinality(RowsOf(u)) <= 1

C8_SecondVoteWins ==
    (Len(voteLog) = 2 /\ voteLog[1] # voteLog[2] /\ net = {} /\ clean)
        => \E r \in store :
              /\ RowsOf(userIdentifier) = {r}
              /\ r.team_voted = voteLog[2]

C8_VoteAThenB == C8_OneRowPerVoter /\ C8_SecondVoteWins

\* C9: handleVote(team) chooses its write from the voter's entry in the
\* mirror: entry with another team -> exactly one update of that row's
\* team_voted; entry with the same team -> no write, votes and userVote
\* unchanged; no entry -> exactly one insert of (match, team, voter).
MyEntries == {k \in 1..Len(votes) : votes[k].user_identifier = userIdentifier}

MyEntry == votes[CHOOSE k \in MyEntries : \A j \in MyEntries : k <= j]

C9_HandleVoteChoosesWrite ==
    [][HandleVoteStep =>
        LET team == voteLog'[Len(voteLog')]
        IN /\ (MyEntries # {} /\ MyEntry.team_voted # team) =>
                  /\ net' = net \cup
                        {[write |-> [kind |-> "update", id |-> MyEntry.id,
                                     match_id |-> "", team_voted |-> team,
                                     user_identifier |-> ""],
                          outcome |-> "pending"]}
                  /\ Cardinality(net') = Cardinality(net) + 1
           /\ (MyEntries # {} /\ MyEntry.team_voted = team) =>
                  /\ net' = net
                  /\ votes' = votes
                  /\ userVote' = userVote
           /\ MyEntries = {} =>
                  /\ net' = net \cup
                        {[write |-> [kind |-> "insert", id |-> 0,
                                     match_id |-> matchId, team_voted |-> team,
                                     user_identifier |-> userIdentifier],
                          outcome |-> "pending"]}
                  /\ Cardinality(net') = Cardinality(net) + 1]_vars

\* a handleVote call found the voter's entry with the other team and its
\* update is in flight
C9_Witness ==
    /\ voteLog # <<>>
    /\ MyEntries # {}
    /\ \E m \in net : /\ m.outcome = "pending"
                      /\ m.write.kind = "update"
                      /\ m.write.id = MyEntry.id
                      /\ m.write.team_voted # MyEntry.team_voted

\* C10: userVote changes to the chosen team only when the remote write
\* succeeded; when the store rejects the write with an error result,
\* userVote keeps its previous value.
C10_UserVoteOnlyOnSuccess ==
    [][\A m \in net :
          (m.outcome = "error" /\ m \notin net') => userVote' = userVote]_vars

\* C11: userVote is corrected by mirror events.  After an INSERT or UPDATE
\* event of the local voter's own row is applied to the mirror, userVote
\* equals that row's team_voted.
C11_MirrorCorrectsUserVote ==
    [][(DeliverStep /\ log[cursor].eventType \in {"INSERT", "UPDATE"}
            /\ log[cursor].new.user_identifier = userIdentifier)
        => userVote' = log[cursor].new.team_voted]_vars

\* C12: A bulk-read response that arrives after the parent key changed or
\* the component was torn down is discarded: it replaces neither the
\* collection nor the loading flag nor userVote of the mirror.
C12_StaleReadDiscarded ==
    [][\A r \in reads :
          (r.st = "replied" /\ r \notin reads' /\ (~mounted \/ r.key # key))
          => /\ votes' = votes
             /\ userVote' = userVote
             /\ isLoading' = isLoading
             /\ messages' = messages
             /\ chatLoading' = chatLoading]_vars

\* C13: Every subscription is released on a change of the parent key or of
\* the identifier and on unmount: a mounted instance has exactly one live
\* subscription per channel, opened by its last effect run for the current
\* key, and an unmounted instance has none.
C13_SubscriptionsReleased ==
    /\ mounted =>
          /\ \A n \in ChannelNames(component) :
                Cardinality({ch \in channels : ch.name = n}) = 1
          /\ \A ch \in channels : ch.key = key /\ ch.run = runs
    /\ ~mounted => channels = {}

\* the instance went through an identifier change and a key change and was
\* then unmounted
C13_Witness == ~mounted /\ key # matchId /\ runs >= 2 /\ channels = {}

\* some rule's matcher matches t
Matches(t) ==
    \E j \in 1..Len(patterns) :
        \E p \in 1..Len(t) : MatchEnd(patterns[j], t, p) > 0

\* C14: whatever calls came before, containsProfanity(text) returns true
\* exactly when some rule's matcher matches text
C14_DetectIsPure ==
    call.op = "containsProfanity" => (call.detected <=> Matches(call.input))

\* the first character of t followed by one asterisk for each other one
FirstThenStars(t) == [i \in 1..Len(t) |-> IF i = 1 THEN t[1] ELSE "*"]

\* C15: when the whole input is a banned word in any casing,
\* containsProfanity returns true and censorMessage returns the first
\* character followed by asterisks
C15_BannedWordWhole ==
    call.input \in WordCasings =>
        /\ call.op = "containsProfanity" => call.detected
        /\ call.op \in {"censorMessage", "censorTwice"} =>
              call.output = FirstThenStars(call.input)

\* C16 as stated: censorMessage applied to its own output returns that
\* output, for every input
C16_CensorIdempotent ==
    call.op = "censorTwice" => call.again = call.output

\* the non-word characters a rule can match: the stand-ins @ $ ! and the
\* separators other than the underscore
MatchableMarks == {"@", "$", "!", ".", "-"} \cup WhiteSpace

Plain(t) == \A i \in 1..Len(t) : t[i] \notin MatchableMarks

\* C16 amended: censorMessage applied to its own output returns that output
\* for every input without a stand-in symbol or separator that a rule can
\* match
C16_CensorIdempotentPlain ==
    (call.op = "censorTwice" /\ Plain(call.input))
        => call.again = call.output

C16_Witness ==
    /\ call.op = "censorTwice"
    /\ Plain(call.input)
    /\ call.output # call.input
    /\ \E i \in 1..Len(call.input) : call.input[i] = ","

\* u is t with every match of ms rewritten: first character kept, the
\* other characters of the match asterisks, the rest of the text untouched
Rewritten(t, ms, u) ==
    /\ Len(u) = Len(t)
    /\ \A m \in ms :
          /\ u[m[1]] = t[m[1]]
          /\ \A i \in (m[1] + 1)..m[2] : u[i] = "*"
    /\ \A i \in 1..Len(t) :
          (\A m \in ms : i < m[1] \/ i > m[2]) => u[i] = t[i]

\* every rule rewrites the text the rule before it left (the first one
\* rewrites t)
EachPassRewrites(t, passes) ==
    \A j \in 1..Len(passes) :
        Rewritten(IF j = 1 THEN t ELSE passes[j - 1],
                  AllMatches(patterns[j], IF j = 1 THEN t ELSE passes[j - 1]),
                  passes[j])

\* C17: censorMessage rewrites each match to its first character followed
\* by asterisks; the output has the length of the input and differs from
\* it only where an asterisk was written
C17_CensorRewritesMatches ==
    call.op = "censorMessage" =>
        /\ EachPassRewrites(call.input, Passes(call.input, 1, Len(patterns)))
        /\ Len(call.output) = Len(call.input)
        /\ \A i \in 1..Len(call.input) :
              call.output[i] # call.input[i] => call.output[i] = "*"

C17_Witness ==
    /\ call.op = "censorMessage"
    /\ call.input = <<"a", "$", " ", "s">>
    /\ call.output = <<"a", "*", "*", "*">>

\* C18: a text that no rule matches comes back unchanged from
\* censorMessage and false from containsProfanity, the empty text included
C18_NoMatchUnchanged ==
    ~Matches(call.input) =>
        /\ call.op = "censorMessage" => call.output = call.input
        /\ call.op = "containsProfanity" => ~call.detected

C18_Witness ==
    /\ call.op = "containsProfanity"
    /\ call.stale
    /\ call.input # <<>>
    /\ ~Matches(call.input)
    /\ ~call.detected

C20_FailedReadHarmless ==
    [][/\ (FetchApplyStep /\ ~fetch.ok) =>
              /\ votes' = votes
              /\ userVote' = userVote
              /\ isLoading' = FALSE
       /\ fetch.st # "sent" => fetch'.st # "sent"
       /\ (DeliverStep /\ fetch.st = "done" /\ ~fetch.ok) =>
              votes' = applyVoteEvent(votes, log[cursor])]_vars

C20_Witness ==
    /\ fetch.st = "done"
    /\ ~fetch.ok
    /\ ~isLoading
    /\ userVote # NULL
    /\ cursor > 1
    /\ \E i \in 1..Len(votes) : votes[i].user_identifier = userIdentifier

\* the step is the continuation of a successful fetchMessages
MessagesApplyStep == fetch.st = "replied" /\ fetch'.st = "done" /\ fetch.ok

\* the step delivers an INSERT event of the mirrored sport
MessagesInsertStep ==
    /\ cursor' = cursor + 1
    /\ log[cursor].new.sport_id = sportId

InCreationOrder(s) ==
    \A i, j \in 1..Len(s) : i < j => s[i].created_at <= s[j].created_at

\* C21: the message mirror keeps server order: with events delivered in
\* commit order the local collection is in non-decreasing created_at order
\* in every reachable state.
C21_MessagesInCreationOrder == InCreationOrder(messages)

\* C21, first two parts: a successful bulk read sets the collection to the
\* returned sequence, an INSERT event puts its row at the end.
C21_ReadReplacesInsertAppends ==
    [][/\ MessagesApplyStep => messages' = fetch.data
       /\ MessagesInsertStep =>
             /\ Len(messages') = Len(messages) + 1
             /\ SubSeq(messages', 1, Len(messages)) = messages
             /\ messages'[Len(messages')] = log[cursor].new]_vars

\* sport of the message a reaction refers to
SportOfMessage(m) == (CHOOSE r \in store : r.id = m).sport_id

\* the last fetchReactions to end was a successful one and none is in flight
ReactionsRead == reads = {} /\ fetch.st = "done" /\ fetch.ok

\* C22: the reaction mirror is scoped to its sport: once the bulk read of
\* the shown sport has completed, every local reaction refers to a message
\* of that sport (none of another or of the previous sport).
C22_ReactionsScoped ==
    ReactionsRead =>
        \A i \in 1..Len(reactions) :
            SportOfMessage(reactions[i].message_id) = key

\* C25: toggleReaction is an involution on the remote store: after two
\* calls on the same message and emoji, the second made when the first had
\* ended, the user's reaction is in chat_reactions iff it was there before
\* the first call; the events may reach the mirror at any time.
C25_ToggleTwiceRestores ==
    (/\ Len(toggles) = 2
     /\ net = {}
     /\ toggles[2].alone
     /\ toggles[1].message_id = toggles[2].message_id
     /\ toggles[1].emoji = toggles[2].emoji)
        => (OwnReaction(toggles[1].message_id, toggles[1].emoji)
               = toggles[1].before)

\* C23: the fan leaderboard always leaves its loading state: once sports
\* have loaded, isLoading true leads to isLoading false.
C23_LoadingEnds == (~sportsLoading /\ isLoading) ~> ~isLoading

\* votes that name a team
NamedVotes(vs) == Cardinality({i \in 1..Len(vs) : vs[i].team_voted # ""})

\* C24: the "total predictions made" of the fan leaderboard equals the
\* number of fetched votes with a non-empty team_voted on matches of team
\* sports, for any number of distinct teams per sport.
C24_TotalCountsEveryVote ==
    (component = "FanLeaderboard" /\ ~isLoading /\ ~sportsLoading /\ reads = {})
        => totalVotes(leaderboards) = NamedVotes(votes)

\* userVote as the rows of a bulk read determine it for the voter
VoteIn(data, u) ==
    IF FindVote(data, u) = NoRow THEN NULL ELSE FindVote(data, u).team_voted

\* C26: after a successful bulk read for the shown match, userVote is the
\* team_voted of the voter's row in the returned set, and null when the set
\* has no row of the voter, also when the instance showed another match
\* before.
C26_UserVoteFollowsRead ==
    [][\A r \in reads :
          (/\ r \notin reads'
           /\ r.st = "replied"
           /\ r.ok
           /\ mounted
           /\ component \in Components
           /\ r.key = key)
             => userVote' = VoteIn(r.data, r.ident)]_vars

\* C27: the vote writes of one widget are serialized by isVoting: at most
\* one handleVote call awaits its write, and isVoting is true exactly while
\* a call awaits: it is false again when the call has ended, whether the
\* write succeeded, failed or threw, and after the same-choice return.
C27_VotesSerialized ==
    /\ Cardinality(net) <= 1
    /\ isVoting <=> net # {}

C27_Witness ==
    /\ Len(voteLog) >= 2
    /\ isVoting
    /\ \E m \in net : m.outcome = "throw"

\* C28: the two displayed percentages are integers in 0..100 that sum to
\* exactly 100 whenever the collection holds a vote for teamA or teamB, and
\* both 50 when it holds none; votes for another team do not count toward
\* totalVotes.
C28_PercentagesSumTo100 ==
    call.op = "tally" =>
        LET t == call.output
        IN /\ t.totalVotes = CountTeam(votes, teamA) + CountTeam(votes, teamB)
           /\ t.teamAPercentage \in 0..100
           /\ t.teamBPercentage \in 0..100
           /\ IF t.totalVotes > 0
              THEN t.teamAPercentage + t.teamBPercentage = 100
              ELSE t.teamAPercentage = 50 /\ t.teamBPercentage = 50

DigitValue(ch) == (CHOOSE k \in 2..Len(CollationOrder) : CollationOrder[k] = ch) - 2

\* value of a string of digits
RECURSIVE NumberOf(_)
NumberOf(ds) ==
    IF ds = <<>> THEN 0
    ELSE 10 * NumberOf(SubSeq(ds, 1, Len(ds) - 1)) + DigitValue(ds[Len(ds)])

\* minutes after midnight of a time such as "1:00 PM"
TimeOfDay(t) ==
    LET colon == CHOOSE k \in 1..Len(t) : t[k] = ":"
        hour == NumberOf(SubSeq(t, 1, colon - 1))
        minute == NumberOf(SubSeq(t, colon + 1, colon + 2))
        pm == \E k \in 1..Len(t) : t[k] = "P"
    IN (hour % 12) * 60 + minute + (IF pm THEN 720 ELSE 0)

InTimeOrder(s) ==
    \A i, j \in 1..Len(s) :
        i < j => TimeOfDay(s[i].match_time) <= TimeOfDay(s[j].match_time)

\* C29: the schedule lists the matches sorted by time: within each
\* category section a match with an earlier time of day stands first, and
\* the listed matches are exactly those that passed the filter, each once.
C29_ScheduleSortedByTime ==
    call.op = "sortedMatches" =>
        /\ \A c \in {"team", "individual", "minor"} :
              InTimeOrder(CategoryMatches(call.output, c))
        /\ Len(call.output) = Len(FilterMatches(call.input.matches,
                                                call.input.filterSportId))
        /\ Range(call.output) = Range(FilterMatches(call.input.matches,
                                                    call.input.filterSportId))

\* C30: the voter identifier of the device is created at most once: a
\* stored identifier is never overwritten, and every component whose
\* identifier effect has run holds the stored, non-empty value, whatever
\* the order of the mounts.
C30_IdentifierCreatedOnce ==
    [][/\ storage # "" => storage' = storage
       /\ \A i \in 1..Len(instances') :
             instances'[i].effect =>
                instances'[i].ident = storage' /\ storage' # ""]_vars

C30_Witness ==
    /\ Len(instances) >= 2
    /\ instances[1].effect
    /\ instances[2].effect
    /\ instances[1].component # instances[2].component
    /\ instances[1].ident = instances[2].ident
    /\ instances[1].ident \in FreshIds

====
